---- MODULE Spec2Model ----
(***************************************************************************)
(* A model of the SID playback engine (SIDEngine: loader, 6502 CPU,        *)
(* SID voices and filter, frame scheduler) and of the SIDPlayer wrapper    *)
(* that drives it, from lib/sid-player-engine.js.                          *)
(*                                                                         *)
(* Numbers.  JavaScript numbers that the code keeps integral are modelled   *)
(* as integers.  The value NaN stands for both `undefined' and NaN (an     *)
(* out-of-range typed-array read, and what arithmetic makes of it).  The   *)
(* engine is constructed with sampleRate = 89568 Hz, for which the clock   *)
(* ratio 985248 / sampleRate is the integer 11, so that cycle counts,      *)
(* phase accumulators and rate counters are exact integers; quantities     *)
(* that are fractions of a sample (frame period and countdown) are kept in *)
(* units of 1/FrameScale sample, and the play time is kept as the number   *)
(* of samples generated.  The filter works on floating-point records.      *)
(***************************************************************************)
EXTENDS Integers, Sequences, FiniteSets, TLC

VARIABLES eng, twin, ref, pl, obs, depth

vars == <<eng, twin, ref, pl, obs, depth>>

-----------------------------------------------------------------------------
(* JavaScript number helpers *)

NaN == 99999999

NAdd(a, b) == IF a = NaN \/ b = NaN THEN NaN ELSE a + b

NMul(a, k) == IF a = NaN THEN NaN ELSE a * k

\* ToInt32, as the bitwise operators apply it: NaN and undefined become 0.
I32(a) == IF a = NaN THEN 0 ELSE a

\* JavaScript truthiness of a number (or undefined).
Truthy(a) == a # NaN /\ a # 0

B2N(b) == IF b THEN 1 ELSE 0

RECURSIVE BitAnd(_, _)
BitAnd(a, b) ==
  IF a = 0 \/ b = 0 THEN 0
  ELSE IF a = -1 THEN b
  ELSE IF b = -1 THEN a
  ELSE ((a % 2) * (b % 2)) + 2 * BitAnd(a \div 2, b \div 2)

RECURSIVE BitOr(_, _)
BitOr(a, b) ==
  IF a = 0 THEN b
  ELSE IF b = 0 THEN a
  ELSE IF a = -1 \/ b = -1 THEN -1
  ELSE (IF (a % 2) + (b % 2) > 0 THEN 1 ELSE 0) + 2 * BitOr(a \div 2, b \div 2)

RECURSIVE BitXor(_, _)
BitXor(a, b) ==
  IF a = 0 THEN b
  ELSE IF b = 0 THEN a
  ELSE IF a = b THEN 0
  ELSE IF a = -1 THEN (-1) - b
  ELSE IF b = -1 THEN (-1) - a
  ELSE (((a % 2) + (b % 2)) % 2) + 2 * BitXor(a \div 2, b \div 2)

\* x & 0xffff, x & 0xff on a number that may be NaN or negative.
And16(a) == I32(a) % 65536

And8(a) == I32(a) % 256

\* Floating-point values (the filter accumulators and everything computed
\* from them) are records [m, x] standing for m * 2^x with a mantissa of
\* MantBits bits, normalised so that 2^(MantBits-1) <= |m| < 2^MantBits.
\* The exponent range is that of a double: a magnitude of 2^1024 or more
\* is an infinity, one below 2^-1074 is zero.
MantBits == 15

InfExp == 9999

InfF(sign) == [m |-> sign, x |-> InfExp]

NaNF == [m |-> 0, x |-> InfExp]

ZeroF == [m |-> 0, x |-> 0]

IsNaNF(a) == a.x = InfExp /\ a.m = 0

IsInfF(a) == a.x = InfExp /\ a.m # 0

Finite(a) == a.x # InfExp

Abs(i) == IF i < 0 THEN -i ELSE i

Sign(i) == IF i < 0 THEN -1 ELSE IF i > 0 THEN 1 ELSE 0

\* m * 2^x for an integer m, rounded toward zero to MantBits bits
Norm(m, x) ==
  IF m = 0 THEN ZeroF
  ELSE LET k  == CHOOSE j \in 0..30 : Abs(m) \div (2 ^ j) = 1
           sh == k + 1 - MantBits
           mm == IF sh >= 0 THEN Sign(m) * (Abs(m) \div (2 ^ sh)) ELSE m * (2 ^ (-sh))
       IN  IF x + sh + MantBits > 1024 THEN InfF(Sign(m))
           ELSE IF x + sh + MantBits < -1073 THEN ZeroF
           ELSE [m |-> mm, x |-> x + sh]

\* An integer (or the undefined/NaN value) as a floating-point value
FromInt(i) == IF i = NaN THEN NaNF ELSE Norm(i, 0)

FNeg(a) == [m |-> -a.m, x |-> a.x]

FMul(a, b) ==
  IF IsNaNF(a) \/ IsNaNF(b) THEN NaNF
  ELSE IF IsInfF(a) \/ IsInfF(b)
    THEN (IF a.m = 0 \/ b.m = 0 THEN NaNF ELSE InfF(Sign(a.m) * Sign(b.m)))
  ELSE Norm(a.m * b.m, a.x + b.x)

\* The sum keeps GuardBits extra bits of the larger operand.
GuardBits == 8

FAdd(a, b) ==
  IF IsNaNF(a) \/ IsNaNF(b) THEN NaNF
  ELSE IF IsInfF(a) /\ IsInfF(b) THEN (IF a.m = b.m THEN a ELSE NaNF)
  ELSE IF IsInfF(a) THEN a
  ELSE IF IsInfF(b) THEN b
  ELSE IF a.m = 0 THEN b
  ELSE IF b.m = 0 THEN a
  ELSE LET hi == IF a.x >= b.x THEN a ELSE b
           lo == IF a.x >= b.x THEN b ELSE a
           d  == hi.x - lo.x
       IN  IF d > MantBits + GuardBits THEN hi
           ELSE Norm(hi.m * (2 ^ GuardBits)
                       + Sign(lo.m) * ((Abs(lo.m) * (2 ^ GuardBits)) \div (2 ^ d)),
                     hi.x - GuardBits)

FSub(a, b) == FAdd(a, FNeg(b))

-----------------------------------------------------------------------------
(* The 64KB memory: a Uint8Array(65536), kept as the function of its       *)
(* non-zero bytes.                                                         *)

ZeroMem == [a \in {} |-> 0]

\* M[a]: a byte, or undefined outside 0..65535.
Rd(M, a) ==
  IF a = NaN \/ a < 0 \/ a > 65535 THEN NaN
  ELSE IF a \in DOMAIN M THEN M[a] ELSE 0

\* M[a] = v: the value is converted modulo 256; an index outside the array
\* stores nothing.
Wr(M, a, v) ==
  IF a = NaN \/ a < 0 \/ a > 65535 THEN M
  ELSE LET b == And8(v) IN
       IF b = 0 THEN [x \in (DOMAIN M) \ {a} |-> M[x]]
       ELSE [x \in (DOMAIN M) \cup {a} |-> IF x = a THEN b ELSE M[x]]

\* for (i = lo; i <= hi; i++) M[i] = 0
ClearRange(M, lo, hi) == [x \in {y \in DOMAIN M : y < lo \/ y > hi} |-> M[x]]

-----------------------------------------------------------------------------
(* The 6502 interpreter, SIDEngine._CPU.  A CPU context c is a record of   *)
(* the registers PC, A, X, Y, SP, ST, the memory M, and the step's outputs *)
(* cyc (cycle cost), sta (last store address), addr (operand address,      *)
(* NaN when the instruction computes none) and rc (the status returned).   *)

flagsw == <<1, 33, 4, 36, 0, 64, 8, 40>>

brf == <<128, 64, 1, 2>>

\* ST &= 125; ST |= (!v) << 1 | (v & 128)
SetNZ(ST, v) == BitOr(BitAnd(ST, 125), BitOr(2 * B2N(v = 0), BitAnd(v, 128)))

\* M[++PC] + M[++PC] * 256
Abs16(c) == NAdd(Rd(c.M, NAdd(c.PC, 1)), NMul(Rd(c.M, NAdd(c.PC, 2)), 256))

\* M[0x100 + SP] = v; SP--; SP &= 0xff
Push(c, v) == [c EXCEPT !.M = Wr(c.M, 256 + c.SP, v), !.SP = And8(c.SP - 1)]

\* SP++; SP &= 0xff (the byte is then read at 0x100 + SP)
Pull(c) == [c EXCEPT !.SP = And8(c.SP + 1)]

\* The addressing switch of the odd opcodes (ALU operations).
AddrOdd(c, IR) ==
  LET m == BitAnd(IR, 31)
      P1 == NAdd(c.PC, 1)
      b1 == Rd(c.M, P1)
  IN  IF m \in {1, 3}
        THEN [c EXCEPT !.PC = P1, !.cyc = 6,
                !.addr = NAdd(Rd(c.M, NAdd(b1, c.X)),
                              NMul(Rd(c.M, NAdd(NAdd(b1, c.X), 1)), 256))]
      ELSE IF m \in {17, 19}
        THEN [c EXCEPT !.PC = P1, !.cyc = 6,
                !.addr = NAdd(NAdd(Rd(c.M, b1), NMul(Rd(c.M, NAdd(b1, 1)), 256)), c.Y)]
      ELSE IF m \in {25, 31}
        THEN [c EXCEPT !.PC = NAdd(c.PC, 2), !.cyc = 5, !.addr = NAdd(Abs16(c), c.Y)]
      ELSE IF m = 29
        THEN [c EXCEPT !.PC = NAdd(c.PC, 2), !.cyc = 5, !.addr = NAdd(Abs16(c), c.X)]
      ELSE IF m \in {13, 15}
        THEN [c EXCEPT !.PC = NAdd(c.PC, 2), !.cyc = 4, !.addr = Abs16(c)]
      ELSE IF m = 21
        THEN [c EXCEPT !.PC = P1, !.cyc = 4, !.addr = NAdd(b1, c.X)]
      ELSE IF m \in {5, 7}
        THEN [c EXCEPT !.PC = P1, !.cyc = 3, !.addr = b1]
      ELSE IF m = 23
        THEN [c EXCEPT !.PC = P1, !.cyc = 4, !.addr = NAdd(b1, c.Y)]
      ELSE IF m \in {9, 11}
        THEN [c EXCEPT !.PC = P1, !.cyc = 2, !.addr = P1]
      ELSE c

\* case 0x60: add with carry
ADC(c, m) ==
  LET T   == c.A
      A1  == c.A + m + BitAnd(c.ST, 1)
      ST1 == BitOr(BitAnd(c.ST, 20), BitOr(BitAnd(A1, 128), B2N(A1 > 255)))
      A2  == And8(A1)
      V   == IF BitAnd(BitXor(T, m), 128) = 0 /\ BitAnd(BitXor(T, A2), 128) # 0
             THEN 64 ELSE 0
  IN  [c EXCEPT !.A = A2, !.ST = BitOr(ST1, BitOr(2 * B2N(A2 = 0), V))]

\* case 0xe0: subtract with carry
SBC(c, m) ==
  LET T   == c.A
      A1  == c.A - (m + B2N(BitAnd(c.ST, 1) = 0))
      ST1 == BitOr(BitAnd(c.ST, 20), BitOr(BitAnd(A1, 128), B2N(A1 >= 0)))
      A2  == And8(A1)
      V   == IF BitAnd(BitXor(T, m), 128) # 0 /\ BitAnd(BitXor(T, A2), 128) # 0
             THEN 64 ELSE 0
  IN  [c EXCEPT !.A = A2, !.ST = BitOr(ST1, BitOr(2 * B2N(A2 = 0), V))]

\* T = r - m; ST &= 124; ST |= (!(T & 0xff)) << 1 | (T & 128) | (T >= 0)
Compare(c, r, m) ==
  LET T == r - m
  IN  [c EXCEPT !.ST = BitOr(BitAnd(c.ST, 124),
                             BitOr(BitOr(2 * B2N(BitAnd(T, 255) = 0), BitAnd(T, 128)),
                                   B2N(T >= 0)))]

\* The operation switch of the odd opcodes, on IR & 0xe0.
ExecOdd(c, IR) ==
  LET op == BitAnd(IR, 224)
      m  == Rd(c.M, c.addr)
  IN  IF op = 96 THEN ADC(c, m)
      ELSE IF op = 224 THEN SBC(c, m)
      ELSE IF op = 192 THEN Compare(c, c.A, m)
      ELSE IF op = 0
        THEN LET a == BitOr(c.A, m) IN [c EXCEPT !.A = a, !.ST = SetNZ(c.ST, a)]
      ELSE IF op = 32
        THEN LET a == BitAnd(c.A, m) IN [c EXCEPT !.A = a, !.ST = SetNZ(c.ST, a)]
      ELSE IF op = 64
        THEN LET a == BitXor(c.A, m) IN [c EXCEPT !.A = a, !.ST = SetNZ(c.ST, a)]
      ELSE IF op = 160
        THEN [c EXCEPT !.A = m, !.ST = SetNZ(c.ST, m),
                       !.X = IF BitAnd(IR, 3) = 3 THEN m ELSE c.X]
      ELSE \* 0x80: STA, or SAX when (IR & 3) = 3
        [c EXCEPT !.M = Wr(c.M, c.addr,
                           BitAnd(c.A, IF BitAnd(IR, 3) = 3 THEN c.X ELSE 255)),
                  !.sta = c.addr]

\* The addressing switch of the opcodes with bit 1 set and bit 0 clear.
AddrRMW(c, IR) ==
  LET m   == BitAnd(IR, 31)
      idx == IF BitAnd(IR, 192) # 128 THEN c.X ELSE c.Y
      P1  == NAdd(c.PC, 1)
  IN  IF m = 30
        THEN [c EXCEPT !.PC = NAdd(c.PC, 2), !.cyc = 5, !.addr = NAdd(Abs16(c), idx)]
      ELSE IF m = 14
        THEN [c EXCEPT !.PC = NAdd(c.PC, 2), !.cyc = 4, !.addr = Abs16(c)]
      ELSE IF m = 22
        THEN [c EXCEPT !.PC = P1, !.cyc = 4, !.addr = NAdd(Rd(c.M, P1), idx)]
      ELSE IF m = 6
        THEN [c EXCEPT !.PC = P1, !.cyc = 3, !.addr = Rd(c.M, P1)]
      ELSE IF m = 2
        THEN [c EXCEPT !.PC = P1, !.cyc = 2, !.addr = P1]
      ELSE c

\* ASL / ROL (cases 0x00 and 0x20); ST has had its carry cleared for ASL.
ShiftLeft(c, IR, ST0) ==
  IF BitAnd(IR, 15) = 10
    THEN LET A1  == (c.A * 2) + BitAnd(ST0, 1)
             ST1 == BitOr(BitAnd(ST0, 60), BitOr(BitAnd(A1, 128), B2N(A1 > 255)))
             A2  == And8(A1)
         IN  [c EXCEPT !.A = A2, !.ST = BitOr(ST1, 2 * B2N(A2 = 0))]
    ELSE LET T1  == (Rd(c.M, c.addr) * 2) + BitAnd(ST0, 1)
             ST1 == BitOr(BitAnd(ST0, 60), BitOr(BitAnd(T1, 128), B2N(T1 > 255)))
             T2  == And8(T1)
         IN  [c EXCEPT !.ST = BitOr(ST1, 2 * B2N(T2 = 0)),
                       !.M = Wr(c.M, c.addr, T2), !.cyc = c.cyc + 2]

\* LSR / ROR (cases 0x40 and 0x60); ST has had its carry cleared for LSR.
ShiftRight(c, IR, ST0) ==
  IF BitAnd(IR, 15) = 10
    THEN LET T   == c.A
             A1  == (c.A \div 2) + BitAnd(ST0, 1) * 128
             ST1 == BitOr(BitAnd(ST0, 60), BitOr(BitAnd(A1, 128), BitAnd(T, 1)))
             A2  == And8(A1)
         IN  [c EXCEPT !.A = A2, !.ST = BitOr(ST1, 2 * B2N(A2 = 0))]
    ELSE LET m   == Rd(c.M, c.addr)
             T1  == (m \div 2) + BitAnd(ST0, 1) * 128
             ST1 == BitOr(BitAnd(ST0, 60), BitOr(BitAnd(T1, 128), BitAnd(m, 1)))
             T2  == And8(T1)
         IN  [c EXCEPT !.ST = BitOr(ST1, 2 * B2N(T2 = 0)),
                       !.M = Wr(c.M, c.addr, T2), !.cyc = c.cyc + 2]

\* M[addr] += d; M[addr] &= 0xff; flags from the stored byte; cyc += 2
IncDecMem(c, d) ==
  LET v == And8(Rd(c.M, c.addr) + d)
  IN  [c EXCEPT !.M = Wr(c.M, c.addr, v), !.ST = SetNZ(c.ST, v), !.cyc = c.cyc + 2]

\* The operation switch of the opcodes with bit 1 set and bit 0 clear.
ExecRMW(c, IR) ==
  LET op == BitAnd(IR, 224)
  IN  IF op = 0 THEN ShiftLeft(c, IR, BitAnd(c.ST, 254))
      ELSE IF op = 32 THEN ShiftLeft(c, IR, c.ST)
      ELSE IF op = 64 THEN ShiftRight(c, IR, BitAnd(c.ST, 254))
      ELSE IF op = 96 THEN ShiftRight(c, IR, c.ST)
      ELSE IF op = 192
        THEN IF BitAnd(IR, 4) # 0 THEN IncDecMem(c, -1)
             ELSE LET x == And8(c.X - 1) IN [c EXCEPT !.X = x, !.ST = SetNZ(c.ST, x)]
      ELSE IF op = 160
        THEN IF BitAnd(IR, 15) # 10
               THEN LET x == Rd(c.M, c.addr) IN [c EXCEPT !.X = x, !.ST = SetNZ(c.ST, x)]
             ELSE IF BitAnd(IR, 16) # 0 THEN [c EXCEPT !.X = c.SP]
             ELSE [c EXCEPT !.X = c.A, !.ST = SetNZ(c.ST, c.A)]
      ELSE IF op = 128
        THEN IF BitAnd(IR, 4) # 0
               THEN [c EXCEPT !.M = Wr(c.M, c.addr, c.X), !.sta = c.addr]
             ELSE IF BitAnd(IR, 16) # 0 THEN [c EXCEPT !.SP = c.X]
             ELSE [c EXCEPT !.A = c.X, !.ST = SetNZ(c.ST, c.X)]
      ELSE \* 0xe0
        IF BitAnd(IR, 4) # 0 THEN IncDecMem(c, 1) ELSE c

\* The opcodes with (IR & 0xc) = 8: stack, register and flag instructions.
ExecImplied(c, IR) ==
  LET op == BitAnd(IR, 240)
      fw == flagsw[(IR \div 32) + 1]
  IN  IF op = 96
        THEN LET p == Pull(c)
                 a == Rd(p.M, 256 + p.SP)
             IN  [p EXCEPT !.A = a, !.ST = SetNZ(p.ST, a), !.cyc = 4]
      ELSE IF op = 192
        THEN LET y == And8(c.Y + 1) IN [c EXCEPT !.Y = y, !.ST = SetNZ(c.ST, y)]
      ELSE IF op = 224
        THEN LET x == And8(c.X + 1) IN [c EXCEPT !.X = x, !.ST = SetNZ(c.ST, x)]
      ELSE IF op = 128
        THEN LET y == And8(c.Y - 1) IN [c EXCEPT !.Y = y, !.ST = SetNZ(c.ST, y)]
      ELSE IF op = 0 THEN [Push(c, c.ST) EXCEPT !.cyc = 3]
      ELSE IF op = 32
        THEN LET p == Pull(c) IN [p EXCEPT !.ST = Rd(p.M, 256 + p.SP), !.cyc = 4]
      ELSE IF op = 64 THEN [Push(c, c.A) EXCEPT !.cyc = 3]
      ELSE IF op = 144 THEN [c EXCEPT !.A = c.Y, !.ST = SetNZ(c.ST, c.Y)]
      ELSE IF op = 160 THEN [c EXCEPT !.Y = c.A, !.ST = SetNZ(c.ST, c.A)]
      ELSE IF BitAnd(fw, 32) # 0
        THEN [c EXCEPT !.ST = BitOr(c.ST, BitAnd(fw, 223))]
      ELSE [c EXCEPT !.ST = BitAnd(c.ST, 255 - BitAnd(fw, 223))]

\* The branch instructions, (IR & 0x1f) = 0x10.
ExecBranch(c, IR) ==
  LET P1    == NAdd(c.PC, 1)
      T0    == Rd(c.M, P1)
      T     == IF BitAnd(I32(T0), 128) # 0 THEN T0 - 256 ELSE T0
      bit   == BitAnd(c.ST, brf[(IR \div 64) + 1])
      taken == IF BitAnd(IR, 32) # 0 THEN bit # 0 ELSE bit = 0
  IN  IF taken THEN [c EXCEPT !.PC = NAdd(P1, T), !.cyc = 3]
      ELSE [c EXCEPT !.PC = P1]

\* The addressing switch of the remaining opcodes.
AddrCtl(c, IR) ==
  LET m  == BitAnd(IR, 31)
      P1 == NAdd(c.PC, 1)
  IN  IF m = 0 THEN [c EXCEPT !.PC = P1, !.cyc = 2, !.addr = P1]
      ELSE IF m = 28
        THEN [c EXCEPT !.PC = NAdd(c.PC, 2), !.cyc = 5, !.addr = NAdd(Abs16(c), c.X)]
      ELSE IF m = 12
        THEN [c EXCEPT !.PC = NAdd(c.PC, 2), !.cyc = 4, !.addr = Abs16(c)]
      ELSE IF m = 20
        THEN [c EXCEPT !.PC = P1, !.cyc = 4, !.addr = NAdd(Rd(c.M, P1), c.X)]
      ELSE IF m = 4
        THEN [c EXCEPT !.PC = P1, !.cyc = 3, !.addr = Rd(c.M, P1)]
      ELSE c

\* PC / 256 as stored into a byte: the fraction is dropped.
Hi(v) == IF v = NaN THEN NaN ELSE v \div 256

Lo(v) == IF v = NaN THEN NaN ELSE v % 256

\* M[a] + M[a + 1] * 256 - 1
Vector(M, a) == NAdd(NAdd(Rd(M, a), NMul(Rd(M, NAdd(a, 1)), 256)), -1)

\* case 0x00: push PC and ST, jump through the vector at 0xfffe
BRK(c) ==
  LET p1 == Push(c, Lo(c.PC))
      p2 == Push(p1, Hi(c.PC))
      p3 == Push(p2, c.ST)
  IN  [p3 EXCEPT !.PC = Vector(p3.M, 65534), !.cyc = 7]

\* case 0x20 with (IR & 0xf) = 0: push the return address, jump
JSR(c) ==
  LET p1 == Push(c, Lo(NAdd(c.PC, 2)))
      p2 == Push(p1, Hi(NAdd(c.PC, 2)))
  IN  [p2 EXCEPT !.PC = Vector(p2.M, c.addr), !.cyc = 6]

\* if (SP >= 0xff) return 0xfe, else pull ST and PC
RTI(c) ==
  IF c.SP >= 255 THEN [c EXCEPT !.rc = 254]
  ELSE LET p1 == Pull(c)
           p2 == Pull(p1)
           p3 == Pull(p2)
           T  == Rd(p2.M, 256 + p2.SP)
       IN  [p3 EXCEPT !.ST = Rd(p1.M, 256 + p1.SP),
                      !.PC = NAdd(NAdd(Rd(p3.M, 256 + p3.SP), NMul(T, 256)), -1),
                      !.cyc = 6]

\* A return that pulls PC whatever the stack pointer is.
RTSAlways(c) ==
  LET p1 == Pull(c)
      p2 == Pull(p1)
      T  == Rd(p1.M, 256 + p1.SP)
  IN  [p2 EXCEPT !.PC = NAdd(NAdd(Rd(p2.M, 256 + p2.SP), NMul(T, 256)), -1),
                 !.cyc = 6]

\* if (SP >= 0xff) return 0xff, else pull PC
RTS(c) ==
  IF c.SP >= 255 THEN [c EXCEPT !.rc = 255]
  ELSE LET p1 == Pull(c)
           p2 == Pull(p1)
           T  == Rd(p1.M, 256 + p1.SP)
       IN  [p2 EXCEPT !.PC = NAdd(NAdd(Rd(p2.M, 256 + p2.SP), NMul(T, 256)), -1),
                      !.cyc = 6]

\* The operation switch of the remaining opcodes, on IR & 0xe0.
ExecCtl(c, IR) ==
  LET op == BitAnd(IR, 224)
      m  == Rd(c.M, c.addr)
  IN  IF op = 0 THEN BRK(c)
      ELSE IF op = 32
        THEN IF BitAnd(IR, 15) # 0
               THEN [c EXCEPT !.ST = BitOr(BitAnd(c.ST, 61),
                                           BitOr(BitAnd(m, 192),
                                                 2 * B2N(BitAnd(c.A, m) = 0)))]
             ELSE JSR(c)
      ELSE IF op = 64
        THEN IF BitAnd(IR, 15) # 0 THEN [c EXCEPT !.PC = c.addr - 1, !.cyc = 3]
             ELSE RTI(c)
      ELSE IF op = 96
        THEN IF BitAnd(IR, 15) # 0 THEN [c EXCEPT !.PC = Vector(c.M, c.addr), !.cyc = 5]
             ELSE RTS(c)
      ELSE IF op = 192 THEN Compare(c, c.Y, m)
      ELSE IF op = 224 THEN Compare(c, c.X, m)
      ELSE IF op = 160 THEN [c EXCEPT !.Y = m, !.ST = SetNZ(c.ST, m)]
      ELSE [c EXCEPT !.M = Wr(c.M, c.addr, c.Y), !.sta = c.addr]

\* addr &= 0xffff
MaskAddr(c) == [c EXCEPT !.addr = And16(c.addr)]

\* One instruction.  The result has rc = 0 with PC advanced, or rc >= 0xfe
\* for a return at an empty stack, with the registers as they stood then.
Step(c0) ==
  LET IR == I32(Rd(c0.M, c0.PC))
      c  == [c0 EXCEPT !.cyc = 2, !.sta = 0, !.addr = NaN, !.rc = 0]
      r  == IF BitAnd(IR, 1) # 0 THEN ExecOdd(MaskAddr(AddrOdd(c, IR)), IR)
            ELSE IF BitAnd(IR, 2) # 0 THEN ExecRMW(MaskAddr(AddrRMW(c, IR)), IR)
            ELSE IF BitAnd(IR, 12) = 8 THEN ExecImplied(c, IR)
            ELSE IF BitAnd(IR, 31) = 16 THEN ExecBranch(c, IR)
            ELSE ExecCtl(MaskAddr(AddrCtl(c, IR)), IR)
  IN  IF r.rc # 0 THEN r ELSE [r EXCEPT !.PC = And16(NAdd(r.PC, 1))]

-----------------------------------------------------------------------------
(* Machine constants and the engine's state, SIDEngine's constructor.      *)

C64_PAL_CPUCLK == 985248

PAL_FRAMERATE == 50

\* The sample rate the engine is constructed with (the audio context's).
sampleRate == 89568

clk_ratio == C64_PAL_CPUCLK \div sampleRate

\* Frame period and countdown are held in units of 1/FrameScale sample:
\* sampleRate / PAL_FRAMERATE and latch / clk_ratio are then integers.
FrameScale == 25 * clk_ratio

\* sampleRate / PAL_FRAMERATE
DefaultPeriod == (sampleRate * FrameScale) \div PAL_FRAMERATE

\* (M[0xdc04] + M[0xdc05] * 256) / clk_ratio
TimerPeriod(M) == ((Rd(M, 56324) + Rd(M, 56325) * 256) * FrameScale) \div clk_ratio

\* The volume is held in units of 1/VolScale.
VolScale == 10

\* The instruction budget of init's loop (for (timeout = 100000; ...)),
\* scaled down.
InitBudget == 20

GAT == 1
SYN == 2
RNG == 4
TST == 8
TRI == 16
SAW == 32
PUL == 64
NOI == 128
HZ == 16
DECSUS == 64
ATK == 128
LP == 16
BP == 32
HP == 64
OFF3 == 128

Bytes32 == [i \in 0..31 |-> 0]

Voices9(v) == [i \in 0..8 |-> v]

Chips3(v) == [i \in 0..2 |-> v]

\* The backgroundNoise argument SIDPlayer passes (0.0005), in 1/10000
DefaultNoise == 5

NewEngine ==
  [ title |-> Bytes32, author |-> Bytes32, info |-> Bytes32, timermode |-> Bytes32,
    loadaddr |-> 4096, initaddr |-> 4096, playaddf |-> 4099, playaddr |-> 4099,
    subtune |-> 0, subtune_amount |-> 1,
    preferred_SID_model |-> <<8580, 8580, 8580>>, SID_model |-> 8580,
    SID_address |-> <<54272, 0, 0>>,
    memory |-> ZeroMem,
    loaded |-> FALSE, initialized |-> FALSE, finished |-> FALSE,
    playtime |-> 0, ended |-> FALSE,
    frame_sampleperiod |-> DefaultPeriod, framecnt |-> FrameScale,
    volume |-> VolScale, backgroundNoise |-> DefaultNoise, CPUtime |-> 0, pPC |-> 0, SIDamount |-> 1, mix |-> ZeroF,
    PC |-> 0, A |-> 0, X |-> 0, Y |-> 0, SP |-> 255, addr |-> 0, ST |-> 0,
    cyc |-> 0, sta |-> 0,
    Ast |-> Voices9(0), rcnt |-> Voices9(0), envcnt |-> Voices9(0),
    expcnt |-> Voices9(0), pSR |-> Voices9(0), pacc |-> Voices9(0),
    pracc |-> Voices9(0), sMSBrise |-> Chips3(0), sMSB |-> Chips3(0),
    nLFSR |-> Voices9(8388600), prevwfout |-> Voices9(0), pwv |-> Voices9(0),
    plp |-> Chips3(ZeroF), pbp |-> Chips3(ZeroF) ]

\* _initCPU(mempos)
initCPU(e, mempos) ==
  [e EXCEPT !.PC = mempos, !.A = 0, !.X = 0, !.Y = 0, !.ST = 0, !.SP = 255]

\* initSID(): clear the chip register ranges, reset the envelope state.
initSID(e) ==
  [e EXCEPT !.memory = ClearRange(ClearRange(e.memory, 54272, 55295), 56832, 57343),
            !.Ast = Voices9(HZ), !.rcnt = Voices9(0), !.envcnt = Voices9(0),
            !.expcnt = Voices9(0), !.pSR = Voices9(0)]

\* The CPU context of an engine, and the write-back at the end of _CPU().
CpuOf(e) ==
  [PC |-> e.PC, A |-> e.A, X |-> e.X, Y |-> e.Y, SP |-> e.SP, ST |-> e.ST,
   M |-> e.memory, cyc |-> e.cyc, sta |-> e.sta, addr |-> e.addr, rc |-> 0]

WriteBack(e, c) ==
  [e EXCEPT !.PC = c.PC, !.A = c.A, !.X = c.X, !.Y = c.Y, !.SP = c.SP, !.ST = c.ST,
            !.memory = c.M, !.cyc = c.cyc, !.sta = c.sta, !.addr = c.addr]

\* this._CPU(): the engine after one instruction, and the status returned.
CPU(e) == LET c == Step(CpuOf(e)) IN [e |-> WriteBack(e, c), rc |-> c.rc]

-----------------------------------------------------------------------------
(* The loader, SIDEngine.loadSIDData, and SIDEngine.init.                  *)

\* filedata[i]: a byte of the file (a sequence of bytes), or undefined.
FB(f, i) == IF i = NaN \/ i < 0 \/ i >= Len(f) THEN NaN ELSE f[i + 1]

\* A header address that counts as given only when its high byte is set.
HeaderAddrHigh(f, hi, other) ==
  IF Truthy(FB(f, hi))
  THEN NAdd(NMul(FB(f, hi), 256), FB(f, hi + 1))
  ELSE other

\* filedata[hi] + filedata[lo] ? filedata[hi] * 256 + filedata[lo] : other
HeaderAddr(f, hi, other) ==
  IF Truthy(NAdd(FB(f, hi), FB(f, hi + 1)))
  THEN NAdd(NMul(FB(f, hi), 256), FB(f, hi + 1))
  ELSE other

LoadAddr(f) ==
  LET offs == FB(f, 7)
  IN  HeaderAddr(f, 8, NAdd(FB(f, offs), NMul(FB(f, NAdd(offs, 1)), 256)))

\* The copy loop: filedata[offs + 2 ..] to memory[loadaddr ..], bytes that
\* would fall at or beyond memory.length are skipped.
LoadImage(f, offs, la) ==
  IF offs = NaN \/ la = NaN THEN ZeroMem
  ELSE [t \in {la + k : k \in {j \in 0..(Len(f) - offs - 3) :
                                 la + j < 65536 /\ f[offs + 3 + j] # 0}}
          |-> f[(t - la) + offs + 3]]

\* _parseString(data, offset, target): copy up to and including the first
\* zero byte, zero-fill the rest.
parseString(f, offset) ==
  [i \in 0..31 |-> IF \E j \in 0..(i - 1) : FB(f, offset + j) = 0
                   THEN 0 ELSE And8(FB(f, offset + i))]

\* this._timermode[31 - i] = filedata[0x12 + (i >> 3)] & Math.pow(2, 7 - i % 8)
TimerMode(f) ==
  [k \in 0..31 |-> LET i == 31 - k
                   IN  BitAnd(I32(FB(f, 18 + (i \div 8))), 2 ^ (7 - (i % 8)))]

\* filedata[at] >= 0x42 && (filedata[at] < 0x80 || filedata[at] >= 0xe0)
\*   ? 0xd000 + filedata[at] * 16 : 0
ChipAddress(f, at) ==
  LET b == FB(f, at)
  IN  IF b # NaN /\ b >= 66 /\ (b < 128 \/ b >= 224) THEN 53248 + b * 16 ELSE 0

PreferredModel(f) ==
  << IF BitAnd(I32(FB(f, 119)), 48) >= 32 THEN 8580 ELSE 6581,
     IF BitAnd(I32(FB(f, 119)), 192) >= 128 THEN 8580 ELSE 6581,
     IF BitAnd(I32(FB(f, 118)), 3) >= 3 THEN 8580 ELSE 6581 >>

\* An instruction loop that runs the whole budget whatever _CPU() returns.
RECURSIVE InitLoopNoBreak(_, _, _)
InitLoopNoBreak(e, timeout, n) ==
  IF timeout < 0 THEN [e |-> e, steps |-> n, rc |-> 0]
  ELSE InitLoopNoBreak(CPU(e).e, timeout - 1, n + 1)

\* The instruction loop of init: for (timeout = InitBudget; timeout >= 0;
\* timeout--) if (this._CPU()) break.  Returns the engine, the number of
\* instructions executed and the last status.
RECURSIVE InitLoop(_, _, _)

\* if (this._CPU()) break, r being what _CPU() did
InitPass(r, timeout, n) ==
  IF r.rc # 0 THEN [e |-> r.e, steps |-> n + 1, rc |-> r.rc]
  ELSE InitLoop(r.e, timeout - 1, n + 1)

InitLoop(e, timeout, n) ==
  IF timeout < 0 THEN [e |-> e, steps |-> n, rc |-> 0]
  ELSE InitPass(CPU(e), timeout, n)

\* init(subtune) up to the head of the instruction loop: CPU and chips
\* reset, A = subtune, memory[1] = 0x37, memory[0xdc05] = 0.
InitEntry(e, subtune) ==
  LET e1 == initSID(initCPU([e EXCEPT !.initialized = FALSE, !.subtune = subtune],
                            e.initaddr))
  IN  [e1 EXCEPT !.A = subtune,
                 !.memory = Wr(Wr(e1.memory, 1, 55), 56325, 0)]

\* init(subtune) up to the end of the instruction loop.
InitRun(e, subtune) == InitLoop(InitEntry(e, subtune), InitBudget, 0)

\* this._timermode[this._subtune]
TimerModeOf(e) ==
  IF e.subtune \in 0..31 THEN e.timermode[e.subtune] ELSE NaN

\* The rest of init with the play address always read from 0xFFFE.
InitFinishFFFE(e) ==
  LET M0   == e.memory
      cia  == Truthy(TimerModeOf(e)) \/ Rd(M0, 56325) # 0
      M1   == IF cia /\ Rd(M0, 56325) = 0
              THEN Wr(Wr(M0, 56324, 36), 56325, 64) ELSE M0
      prd  == IF cia THEN TimerPeriod(M1) ELSE DefaultPeriod
      pa   == IF e.playaddf = 0
              THEN Rd(M1, 65534) + Rd(M1, 65535) * 256
              ELSE e.playaddf
      M2   == IF e.playaddf # 0 /\ pa # NaN /\ pa >= 57344 /\ Rd(M1, 1) = 55
              THEN Wr(M1, 1, 53) ELSE M1
      e1   == initCPU([e EXCEPT !.memory = M2, !.frame_sampleperiod = prd,
                                !.playaddr = pa], pa)
  IN  [e1 EXCEPT !.framecnt = FrameScale, !.finished = FALSE, !.CPUtime = 0,
                 !.playtime = 0, !.ended = FALSE, !.initialized = TRUE]

\* init(subtune) after the instruction loop: frame period, play address,
\* CPU and playback state.
InitFinish(e) ==
  LET M0   == e.memory
      cia  == Truthy(TimerModeOf(e)) \/ Rd(M0, 56325) # 0
      M1   == IF cia /\ Rd(M0, 56325) = 0
              THEN Wr(Wr(M0, 56324, 36), 56325, 64) ELSE M0
      prd  == IF cia THEN TimerPeriod(M1) ELSE DefaultPeriod
      pa   == IF e.playaddf = 0
              THEN IF BitAnd(Rd(M1, 1), 3) < 2
                   THEN Rd(M1, 65534) + Rd(M1, 65535) * 256
                   ELSE Rd(M1, 788) + Rd(M1, 789) * 256
              ELSE e.playaddf
      M2   == IF e.playaddf # 0 /\ pa # NaN /\ pa >= 57344 /\ Rd(M1, 1) = 55
              THEN Wr(M1, 1, 53) ELSE M1
      e1   == initCPU([e EXCEPT !.memory = M2, !.frame_sampleperiod = prd,
                                !.playaddr = pa], pa)
  IN  [e1 EXCEPT !.framecnt = FrameScale, !.finished = FALSE, !.CPUtime = 0,
                 !.playtime = 0, !.ended = FALSE, !.initialized = TRUE]

\* init(subtune) from the end of the instruction loop on, r being what the
\* loop did
InitEnd(r) == [e |-> InitFinish(r.e), steps |-> r.steps, rc |-> r.rc]

\* init(subtune): the engine afterwards, the number of instructions the
\* loop executed and the last status of _CPU()
InitTrace(e, subtune) ==
  IF ~e.loaded THEN [e |-> e, steps |-> 0, rc |-> 0] ELSE InitEnd(InitRun(e, subtune))

init(e, subtune) == InitTrace(e, subtune).e

\* loadSIDData up to its closing call of init: the engine with the file's
\* header fields and memory image in place.
LoadHeader(e, filedata, subtune) ==
  LET e0   == initSID([e EXCEPT !.loaded = FALSE])
      offs == FB(filedata, 7)
      la   == LoadAddr(filedata)
      a1   == ChipAddress(filedata, 122)
      a2   == ChipAddress(filedata, 123)
      e1   == [e0 EXCEPT
                 !.subtune = subtune,
                 !.loadaddr = la,
                 !.timermode = TimerMode(filedata),
                 !.memory = LoadImage(filedata, offs, la),
                 !.title = parseString(filedata, 22),
                 !.author = parseString(filedata, 54),
                 !.info = parseString(filedata, 86),
                 !.initaddr = HeaderAddr(filedata, 10, la),
                 !.playaddr = NAdd(NMul(FB(filedata, 12), 256), FB(filedata, 13)),
                 !.playaddf = NAdd(NMul(FB(filedata, 12), 256), FB(filedata, 13)),
                 !.subtune_amount = FB(filedata, 15),
                 !.preferred_SID_model = PreferredModel(filedata),
                 !.SID_address = <<54272, a1, a2>>,
                 !.SIDamount = 1 + B2N(a1 > 0) + B2N(a2 > 0),
                 !.loaded = TRUE]
  IN  e1

\* loadSIDData(filedata, subtune) with what the instruction loop of its
\* closing init did
LoadTrace(e, filedata, subtune) == InitTrace(LoadHeader(e, filedata, subtune), subtune)

loadSIDData(e, filedata, subtune) == LoadTrace(e, filedata, subtune).e

\* loadSIDData(filedata, subtune) called on each engine of es
LoadEach(es, filedata, subtune) ==
  [i \in DOMAIN es |-> LoadTrace(es[i], filedata, subtune)]

-----------------------------------------------------------------------------
(* The SID chip, SIDEngine._SID: envelope, oscillator, waveforms, filter.  *)
(* Voice outputs and the filter accumulators are held in units of 1/256    *)
(* (the envelope factor envcnt / 256 is applied as a multiplication by     *)
(* envcnt); where the source computes a fraction of an output step in      *)
(* floating point, the model keeps the integer part.                       *)

SID_CHANNEL_AMOUNT == 3

\* this._Aprd, with prd0 = Math.max(clk_ratio, 9)
Aprd ==
  << IF clk_ratio > 9 THEN clk_ratio ELSE 9, 32, 63, 95, 149, 220, 267, 313, 392,
     977, 1954, 3126, 3907, 11720, 19532, 31251 >>

\* this._Astp, with Math.ceil(prd0 / 9) first
Astp == << (Aprd[1] + 8) \div 9, 1, 1, 1, 1, 1, 1, 1, 1, 1, 1, 1, 1, 1, 1, 1 >>

\* A repeat-count table with an entry for each of the 256 levels.
AexpFull(i) ==
  IF i = 0 THEN 1
  ELSE IF i <= 6 THEN 30
  ELSE IF i <= 14 THEN 16
  ELSE IF i <= 26 THEN 8
  ELSE IF i <= 54 THEN 4
  ELSE IF i <= 93 THEN 2
  ELSE 1

\* this._Aexp[i]: the table has 254 entries, so indexes 254 and 255 read
\* undefined.
Aexp(i) ==
  IF i = 0 THEN 1
  ELSE IF i <= 6 THEN 30
  ELSE IF i <= 14 THEN 16
  ELSE IF i <= 26 THEN 8
  ELSE IF i <= 54 THEN 4
  ELSE IF i <= 93 THEN 2
  ELSE IF i <= 253 THEN 1
  ELSE NaN

\* a * b = q * d + r with 0 <= r < d, without forming the product.
RECURSIVE MulDiv(_, _, _)
MulDiv(a, b, d) ==
  IF b = 0 THEN [q |-> 0, r |-> 0]
  ELSE LET h  == MulDiv(a, b \div 2, d)
           r3 == 2 * h.r + (IF b % 2 = 1 THEN a % d ELSE 0)
           q3 == 2 * h.q + (IF b % 2 = 1 THEN a \div d ELSE 0)
       IN  [q |-> q3 + (r3 \div d), r |-> r3 % d]

\* The gate edge, rate counter and envelope step of one voice.  v is the
\* record of the voice's Ast, rcnt, envcnt, expcnt, pSR; ctrl, AD and SR are
\* the voice's control, attack/decay and sustain/release registers.
Envelope(v, ctrl, AD, SR) ==
  LET pgt   == BitAnd(v.Ast, GAT)
      edge  == pgt # BitAnd(ctrl, GAT)
      Ast1  == IF ~edge THEN v.Ast
               ELSE IF pgt # 0 THEN BitAnd(v.Ast, 255 - (GAT + ATK + DECSUS))
               ELSE GAT + ATK + DECSUS
      tmp   == IF edge /\ pgt = 0 /\ BitAnd(SR, 15) > BitAnd(v.pSR, 15) THEN 1 ELSE 0
      rc0   == v.rcnt + clk_ratio
      rc1   == IF rc0 >= 32768 THEN rc0 - 32768 ELSE rc0
      rate  == IF BitAnd(Ast1, ATK) # 0 THEN AD \div 16
               ELSE IF BitAnd(Ast1, DECSUS) # 0 THEN BitAnd(AD, 15)
               ELSE BitAnd(SR, 15)
      prd   == Aprd[rate + 1]
      step  == Astp[rate + 1]
      fire  == rc1 >= prd /\ rc1 < prd + clk_ratio /\ tmp = 0
      atk   == BitAnd(Ast1, ATK) # 0
      exp1  == IF atk THEN v.expcnt ELSE v.expcnt + 1
      go    == atk \/ exp1 = Aexp(v.envcnt)
      hold  == BitAnd(Ast1, HZ) # 0
      up    == v.envcnt + step
      down  == v.envcnt - step
      decay == BitAnd(Ast1, DECSUS) = 0 \/ v.envcnt > (SR \div 16) + BitAnd(SR, 240)
      env1  == IF ~(fire /\ go) \/ hold THEN v.envcnt
               ELSE IF atk THEN (IF up >= 255 THEN 255 ELSE up)
               ELSE IF decay THEN (IF down <= 0 /\ down + step # 0 THEN 0 ELSE down)
               ELSE v.envcnt
      Ast2  == IF ~(fire /\ go) \/ hold THEN Ast1
               ELSE IF atk THEN (IF up >= 255 THEN BitAnd(Ast1, 255 - ATK) ELSE Ast1)
               ELSE IF decay /\ down <= 0 /\ down + step # 0 THEN BitOr(Ast1, HZ)
               ELSE Ast1
  IN  [Ast    |-> Ast2,
       rcnt   |-> IF fire THEN rc1 - prd ELSE rc1,
       envcnt |-> And8(env1),
       expcnt |-> IF fire THEN (IF go THEN 0 ELSE exp1) ELSE v.expcnt,
       pSR    |-> SR]

\* The phase accumulator after one sample.
NextAcc(pacc, aAdd, reset) ==
  IF reset THEN 0
  ELSE IF pacc + aAdd > 16777215 THEN pacc + aAdd - 16777216 ELSE pacc + aAdd

\* x & (1 << k), for x >= 0
BitOf(x, k) == ((x \div (2 ^ k)) % 2) * (2 ^ k)

\* A shift register fed back from bits 22 and 19.
NextLFSR19(tmp, test) ==
  LET step == BitXor(BitOf(tmp, 22), BitOf(tmp, 19) * 8)
  IN  ((tmp * 2) + (IF step > 0 THEN 1 ELSE test)) % 8388608

\* The noise shift register after one clock.
NextLFSR(tmp, test) ==
  LET step == BitXor(BitOf(tmp, 22), BitOf(tmp, 17) * 32)
  IN  ((tmp * 2) + (IF step > 0 THEN 1 ELSE test)) % 8388608

\* The 16-bit noise output taken from the shift register's bits.
NoiseOut(tmp) ==
  (BitOf(tmp, 20) \div 32) + (BitOf(tmp, 18) \div 16) + (BitOf(tmp, 14) \div 2)
  + (BitOf(tmp, 11) * 2) + (BitOf(tmp, 9) * 4) + (BitOf(tmp, 5) * 32)
  + (BitOf(tmp, 2) * 128) + (BitOf(tmp, 0) * 256)

\* The pulse width after its limiting against the frequency.
PulseWidth(pwreg, aAdd) ==
  LET pw0  == pwreg * 16
      tmp1 == aAdd \div 512
      pw1  == IF 0 < pw0 /\ pw0 < tmp1 THEN tmp1 ELSE pw0
      tmp2 == BitXor(tmp1, 65535)
  IN  IF pw1 > tmp2 THEN tmp2 ELSE pw1

\* The pulse waveform alone (wf === PUL), with step = 256 / (aAdd >> 16);
\* k = 0 makes step Infinity, and what IEEE arithmetic then yields is
\* spelled out.
PulseOut(pacc, pw, aAdd, test) ==
  LET tmp == pacc \div 256
      k   == aAdd \div 65536
  IN  IF test # 0 THEN 65535
      ELSE IF tmp < pw
        THEN IF k = 0 THEN 0
             ELSE LET lim == IF (65535 - pw) * 256 > 65535 * k
                             THEN 65535 * k ELSE (65535 - pw) * 256
                      w   == lim - (pw - tmp) * 256
                  IN  IF w < 0 THEN 0 ELSE w \div k
      ELSE IF k = 0 THEN (IF tmp = 65535 \/ pw = 0 THEN 0 ELSE 65535)
      ELSE LET lim == IF pw * 256 > 65535 * k THEN 65535 * k ELSE pw * 256
               w   == (65535 - tmp) * 256 - lim
           IN  IF w >= 0 THEN 65535 ELSE (-((-w) \div k)) % 65536

\* The sawtooth alone, with step = aAdd / 0x1200000.
SawOut(pacc, aAdd) ==
  LET w  == pacc \div 256
      m  == MulDiv(w, aAdd, 18874368)
      hi == m.q > 65535 - w \/ (m.q = 65535 - w /\ m.r > 0)
  IN  IF aAdd = 0 THEN w
      ELSE IF hi THEN (65535 - w) + MulDiv(65536 - w, 18874368, aAdd).q
      ELSE w + m.q

\* The triangle, with ring modulation by the previous voice's MSB.
TriOut(pacc, ctrl, sMSB) ==
  LET tmp == BitXor(pacc, IF BitAnd(ctrl, RNG) # 0 THEN sMSB ELSE 0)
  IN  BitXor(tmp, IF BitOf(tmp, 23) # 0 THEN 16777215 ELSE 0) \div 128

\* One entry of a combined-waveform table, _buildCombinedWF: bit j of the
\* entry is set when the neighbouring bits' weighted level reaches the
\* threshold.  The weights bitmul / bstr^|k-j| are taken in millionths;
\* bstr is given in tenths, bitmul and trh in hundredths.
RECURSIVE InvPow(_, _)
InvPow(bstr10, n) == IF n = 0 THEN 1000000 ELSE (InvPow(bstr10, n - 1) * 10) \div bstr10

CombinedLevel(i, j, bstr10) ==
  LET W(k) == InvPow(bstr10, IF k > j THEN k - j ELSE j - k)
      S[k \in 0..12] == IF k = 12 THEN 0
                        ELSE S[k + 1] + (IF (i \div (2 ^ k)) % 2 = 1 THEN W(k) ELSE -W(k))
  IN  S[0]

CombinedWF(i, bitmul100, bstr10, trh100) ==
  LET B[j \in 0..12] ==
        IF j = 12 THEN 0
        ELSE B[j + 1] + (IF CombinedLevel(i, j, bstr10) * bitmul100
                              >= trh100 * 2000000
                         THEN 2 ^ j ELSE 0)
  IN  B[0] * 12

\* The three tables: 1 = _trsaw, 2 = _pusaw, 3 = _Pulsetrsaw.
WaveTable(t, index) ==
  IF index = NaN \/ index < 0 \/ index > 4095 THEN NaN
  ELSE IF t = 1 THEN CombinedWF(index, 80, 24, 64)
  ELSE IF t = 2 THEN CombinedWF(index, 140, 19, 68)
  ELSE CombinedWF(index, 80, 25, 64)

\* _cmbWF's table index
cmbIndex(model, index, differ6581) ==
  IF differ6581 /\ model = 6581 THEN index % 2048 ELSE index

\* One pass of the channel loop of _SID: voice chn of chip num for one
\* sample.  acc carries the engine, flin and output (the chip's filter
\* input and direct mix so far) and wfout (the last voice's waveform
\* output).
Voice(acc, num, SIDaddr, chn) ==
  LET e      == acc.e
      M      == e.memory
      chnadd == SIDaddr + (chn - num * SID_CHANNEL_AMOUNT) * 7
      ctrl   == Rd(M, chnadd + 4)
      wf     == BitAnd(ctrl, 240)
      test   == BitAnd(ctrl, TST)
      SR     == Rd(M, chnadd + 6)
      env    == Envelope([Ast |-> e.Ast[chn], rcnt |-> e.rcnt[chn],
                          envcnt |-> e.envcnt[chn], expcnt |-> e.expcnt[chn],
                          pSR |-> e.pSR[chn]], ctrl, Rd(M, chnadd + 5), SR)
      aAdd   == (Rd(M, chnadd) + Rd(M, chnadd + 1) * 256) * clk_ratio
      pacc   == NextAcc(e.pacc[chn], aAdd,
                        test # 0 \/ (BitAnd(ctrl, SYN) # 0 /\ e.sMSBrise[num] # 0))
      MSB    == BitOf(pacc, 23)
      clock  == BitOf(pacc, 20) # BitOf(e.pracc[chn], 20) \/ aAdd >= 1048576
      lfsr   == IF BitAnd(wf, NOI) # 0 /\ clock
                THEN NextLFSR(e.nLFSR[chn], test) ELSE e.nLFSR[chn]
      pw     == PulseWidth(Rd(M, chnadd + 2) + BitAnd(Rd(M, chnadd + 3), 15) * 256, aAdd)
      tmp    == pacc \div 256
      high   == tmp >= pw \/ test # 0
      ring   == BitXor(pacc, IF BitAnd(ctrl, RNG) # 0 THEN e.sMSB[num] ELSE 0)
      \* the combined-waveform table consulted, 0 when none is
      tbl    == IF BitAnd(wf, NOI) # 0 THEN 0
                ELSE IF BitAnd(wf, PUL) # 0
                  THEN IF wf = PUL \/ ~high THEN 0
                       ELSE IF BitAnd(wf, TRI) # 0
                         THEN (IF BitAnd(wf, SAW) # 0 THEN 3 ELSE 2)
                       ELSE IF BitAnd(wf, SAW) # 0 THEN 2 ELSE 0
                ELSE IF BitAnd(wf, SAW) # 0 /\ BitAnd(wf, TRI) # 0 THEN 1
                ELSE 0
      index  == IF BitAnd(wf, PUL) # 0 /\ BitAnd(wf, TRI) # 0 /\ BitAnd(wf, SAW) = 0
                THEN cmbIndex(e.SID_model,
                              BitXor(ring, IF BitOf(ring, 23) # 0 THEN 16777215 ELSE 0)
                                \div 2048, FALSE)
                ELSE cmbIndex(e.SID_model, tmp \div 16, TRUE)
      entry  == WaveTable(tbl, index)
      wfnew  == IF BitAnd(wf, NOI) # 0
                  THEN (IF BitAnd(wf, 112) # 0 THEN 0 ELSE NoiseOut(lfsr))
                ELSE IF tbl # 0 THEN Hi(NMul(NAdd(entry, e.pwv[chn]), 128))
                ELSE IF BitAnd(wf, PUL) # 0
                  THEN (IF wf = PUL THEN PulseOut(pacc, pw, aAdd, test)
                        ELSE IF BitAnd(wf, TRI + SAW) # 0 THEN 0
                        ELSE IF high THEN 65535 ELSE 0)
                ELSE IF BitAnd(wf, SAW) # 0 THEN SawOut(pacc, aAdd)
                ELSE TriOut(pacc, ctrl, e.sMSB[num])
      wfout  == IF wf # 0 THEN wfnew ELSE e.prevwfout[chn]
      part   == NMul(NAdd(wfout, -32768), env.envcnt)
      routed == BitAnd(Rd(M, SIDaddr + 23), 2 ^ (chn % 3)) # 0
      direct == ~routed /\ (chn % SID_CHANNEL_AMOUNT # 2
                            \/ BitAnd(Rd(M, SIDaddr + 24), OFF3) = 0)
  IN  [e      |-> [e EXCEPT !.Ast[chn] = env.Ast, !.rcnt[chn] = env.rcnt,
                            !.envcnt[chn] = env.envcnt, !.expcnt[chn] = env.expcnt,
                            !.pSR[chn] = env.pSR, !.pacc[chn] = pacc,
                            !.pracc[chn] = pacc, !.nLFSR[chn] = lfsr,
                            !.sMSBrise[num] = IF MSB > BitOf(e.pracc[chn], 23)
                                              THEN 1 ELSE 0,
                            !.sMSB[num] = MSB,
                            !.pwv[chn] = IF tbl # 0 THEN entry ELSE e.pwv[chn],
                            !.prevwfout[chn] = wfout],
       flin   |-> IF routed THEN NAdd(acc.flin, part) ELSE acc.flin,
       output |-> IF direct THEN NAdd(acc.output, part) ELSE acc.output,
       wfout  |-> wfout]

\* floor(a * b / 2^24) for 0 <= a, b < 2^24, by 12-bit halves
MulShift(a, b) ==
  LET a1 == a \div 4096
      a0 == a % 4096
      b1 == b \div 4096
      b0 == b % 4096
  IN  a1 * b1 + ((a1 * b0 + a0 * b1 + ((a0 * b0) \div 4096)) \div 4096)

RECURSIVE Squared(_, _)
Squared(b, n) == IF b <= 0 \/ n = 0 THEN b ELSE Squared(MulShift(b, b), n - 1)

\* Math.exp(-x) for x = (ctf40 / 40) * (100 * num100) / (256 * sampleRate),
\* in units of 2^-24, as (1 - x / 4096)^4096 by twelve squarings.
ExpNeg(ctf40, num100) ==
  LET b == (2 ^ 24) - ((ctf40 * 40 * num100) \div sampleRate)
  IN  IF b <= 0 THEN 0 ELSE Squared(b, 12)

\* Math.pow(2, (4 - r) / 8) for r = 0..15, in units of 2^-10
Reso8580 ==
  <<1448, 1328, 1218, 1117, 1024, 939, 861, 790, 724, 664, 609, 558, 512, 470, 431, 395>>

\* The filter's cutoff coefficient; ctf40 is the source's ctf before the
\* model is applied ((M[0x15] & 7) / 8 + M[0x16] + 0.2), in fortieths.
\* 2 * 3.14 * 12500 = 100 * 785 and 2 * 3.14 * 20000 = 100 * 1256.
Cutoff(model, ctf40) ==
  IF model = 8580 THEN Norm((2 ^ 24) - ExpNeg(ctf40, 785), -24)
  ELSE IF ctf40 < 24 * 40 THEN Norm((35 * (2 ^ 20)) \div 1000, -20)
  ELSE LET E == ExpNeg(ctf40, 1256)
       IN  Norm((2 ^ 24) - ((E \div 1000) * 1263 + (((E % 1000) * 1263) \div 1000)), -24)

\* The filter's resonance factor
Resonance(model, r17) ==
  IF model = 8580 THEN Norm(Reso8580[(r17 \div 16) + 1], -10)
  ELSE IF r17 > 95 THEN Norm((8 * (2 ^ 20)) \div (r17 \div 16), -20)
  ELSE Norm((141 * (2 ^ 20)) \div 100, -20)

\* 1 / this.OUTPUT_SCALEDOWN = 1 / (0x10000 * 3 * 16)
ScaleDown == Norm((2 ^ 20) \div SID_CHANNEL_AMOUNT, -40)

\* for (chn = num * CHA; chn < (num + 1) * CHA; chn++) { ... }
RECURSIVE VoiceLoop(_, _, _, _)
VoiceLoop(acc, num, SIDaddr, chn) ==
  IF chn >= (num + 1) * SID_CHANNEL_AMOUNT THEN acc
  ELSE VoiceLoop(Voice(acc, num, SIDaddr, chn), num, SIDaddr, chn + 1)

\* The read-back registers: M[SIDaddr + 0x1b] = wfout >> 8 when I/O is
\* banked in, M[SIDaddr + 0x1c] = this._envcnt[3].
ReadBack(acc, SIDaddr) ==
  LET M  == acc.e.memory
      M1 == IF BitAnd(Rd(M, 1), 3) # 0 THEN Wr(M, SIDaddr + 27, Hi(acc.wfout)) ELSE M
  IN  [acc EXCEPT !.e.memory = Wr(M1, SIDaddr + 28, acc.e.envcnt[3])]

\* The two-integrator filter: fl and o0 are the filter input and the
\* direct mix, pbp and plp the accumulators, ctf and rs the cutoff and
\* resonance coefficients, r18 the mode/volume register.
FilterStep(fl, o0, pbp, plp, ctf, rs, r18) ==
  LET t1  == FAdd(FAdd(fl, FMul(pbp, rs)), plp)
      o1  == IF BitAnd(r18, HP) # 0 THEN FSub(o0, t1) ELSE o0
      t2  == FSub(pbp, FMul(t1, ctf))
      o2  == IF BitAnd(r18, BP) # 0 THEN FSub(o1, t2) ELSE o1
      t3  == FAdd(plp, FMul(t2, ctf))
      o3  == IF BitAnd(r18, LP) # 0 THEN FAdd(o2, t3) ELSE o2
  IN  [pbp |-> t2, plp |-> t3,
       out |-> FMul(FMul(o3, ScaleDown), FromInt(BitAnd(r18, 15)))]

\* The engine with the chip's filter accumulators stored, and the value
\* _SID returns.
FilterDone(e, num, f) ==
  [e |-> [e EXCEPT !.pbp[num] = f.pbp, !.plp[num] = f.plp], out |-> f.out]

\* The filter section of _SID on the channel loop's result.
Filter(acc, num, SIDaddr) ==
  LET e == acc.e
      M == e.memory
  IN  FilterDone(e, num,
        FilterStep(FMul(FromInt(acc.flin), Norm(1, -8)),
                   FMul(FromInt(acc.output), Norm(1, -8)),
                   e.pbp[num], e.plp[num],
                   Cutoff(e.SID_model, 5 * BitAnd(Rd(M, SIDaddr + 21), 7)
                                       + 40 * Rd(M, SIDaddr + 22) + 8),
                   Resonance(e.SID_model, Rd(M, SIDaddr + 23)),
                   Rd(M, SIDaddr + 24)))

\* this._SID(num, SIDaddr): the engine after the chip's sample and the
\* value returned.
SID(e, num, SIDaddr) ==
  Filter(ReadBack(VoiceLoop([e |-> e, flin |-> 0, output |-> 0, wfout |-> 0],
                            num, SIDaddr, num * SID_CHANNEL_AMOUNT),
                  SIDaddr),
         num, SIDaddr)

-----------------------------------------------------------------------------
(* SIDEngine.play: one output sample.                                      *)

\* this.SIDamount_vol, in tenths
SIDamount_vol == <<0, 10, 6, 4>>

\* A gate-off handling that clears the gate flag alone.
GateOffGateOnly(ast) == BitAnd(ast, 254)

\* this._Ast[k] &= 0x3e: the gate, decay-sustain and attack flags cleared
\* at once when the tune writes a control register with the gate bit clear.
GateOffAst(ast) == BitAnd(ast, 62)

\* The body of the instruction loop of play after one instruction that
\* did not end the frame: timer latch, register mirroring, gate-off.
AfterStep(e) ==
  LET M    == e.memory
      io   == BitAnd(Rd(M, 1), 3) # 0
      prd  == IF e.addr \in {56324, 56325} /\ io /\ Truthy(TimerModeOf(e))
              THEN TimerPeriod(M) ELSE e.frame_sampleperiod
      in2  == e.SID_address[2] <= e.sta /\ e.sta < e.SID_address[2] + 31
      in3  == e.SID_address[3] <= e.sta /\ e.sta < e.SID_address[3] + 31
      M1   == IF e.sta # NaN /\ e.sta >= 54304 /\ e.sta < 55296 /\ io
                 /\ ~in2 /\ ~in3
              THEN Wr(M, BitAnd(e.sta, 54303), Rd(M, e.sta)) ELSE M
      off(k, a) == IF e.addr = a /\ BitAnd(Rd(M1, a), 1) = 0
                   THEN GateOffAst(e.Ast[k]) ELSE e.Ast[k]
  IN  [e EXCEPT !.frame_sampleperiod = prd, !.memory = M1,
                !.Ast[0] = off(0, 54276), !.Ast[1] = off(1, 54283),
                !.Ast[2] = off(2, 54290)]

\* while (this._CPUtime <= this._clk_ratio) { ... }: the engine when the
\* loop is left and the number of instructions executed.
RECURSIVE PlayLoop(_, _)

\* The loop's body from the ROM-routine test on, e being the engine with
\* the instruction's cycles added
AfterCycles(e, n) ==
  IF BitAnd(Rd(e.memory, 1), 3) > 1 /\ e.pPC # NaN /\ e.pPC < 57344
     /\ e.PC \in {59953, 60033}
  THEN [e |-> [e EXCEPT !.finished = TRUE], steps |-> n + 1]
  ELSE PlayLoop(AfterStep(e), n + 1)

\* if (this._CPU() >= 0xfe) { finished = true; break } else CPUtime += cyc
AfterCPU(r, n) ==
  IF r.rc >= 254 THEN [e |-> [r.e EXCEPT !.finished = TRUE], steps |-> n + 1]
  ELSE AfterCycles([r.e EXCEPT !.CPUtime = r.e.CPUtime + r.e.cyc], n)

PlayLoop(e, n) ==
  IF e.CPUtime > clk_ratio THEN [e |-> e, steps |-> n]
  ELSE AfterCPU(CPU([e EXCEPT !.pPC = e.PC]), n)

\* One pass of the loop's body on engine e.  The body neither reads nor
\* tests _CPUtime, so it is computed by entering the loop at the last value
\* that admits a pass (the loop is left after it, an instruction taking two
\* cycles or more), the cycles added being put on top of e's own counter.
PassDone(e, r) == [r.e EXCEPT !.CPUtime = e.CPUtime + (r.e.CPUtime - clk_ratio)]

LoopPass(e) == PassDone(e, PlayLoop([e EXCEPT !.CPUtime = clk_ratio], 0))

\* A frame countdown that adds the period to what is left of the countdown.
FrameTickCarry(e) ==
  LET e1 == [e EXCEPT !.framecnt = e.framecnt - FrameScale,
                      !.playtime = e.playtime + 1]
  IN  IF e1.framecnt <= 0
      THEN [e1 EXCEPT !.framecnt = e1.framecnt + e1.frame_sampleperiod,
                      !.finished = FALSE, !.PC = e1.playaddr, !.SP = 255]
      ELSE e1

\* The frame countdown at the head of play.
FrameTick(e) ==
  LET e1 == [e EXCEPT !.framecnt = e.framecnt - FrameScale,
                      !.playtime = e.playtime + 1]
  IN  IF e1.framecnt <= 0
      THEN [e1 EXCEPT !.framecnt = e1.frame_sampleperiod, !.finished = FALSE,
                      !.PC = e1.playaddr, !.SP = 255]
      ELSE e1

\* acc.out + this._SID(num, SIDaddr), s being what _SID returned
AddOut(acc, s) == [e |-> s.e, out |-> FAdd(acc.out, s.out)]

\* The address _SID is called with for chip num: 0xd400 for the first,
\* this._SID_address[num] for the second and third
ChipAddr(e, num) == IF num = 0 THEN 54272 ELSE e.SID_address[num + 1]

\* this._mix = this._SID(0, 0xd400); if (this._SID_address[num]) this._mix +=
\* this._SID(num, this._SID_address[num]) for num = 1, 2
RECURSIVE AddChip(_, _)
AddChip(acc, num) ==
  IF num > 2 THEN acc
  ELSE IF num > 0 /\ acc.e.SID_address[num + 1] = 0 THEN AddChip(acc, num + 1)
  ELSE AddChip(AddOut(acc, SID(acc.e, num, ChipAddr(acc.e, num))), num + 1)

StoreMix(acc) == [acc.e EXCEPT !.mix = acc.out]

Mix(e) == StoreMix(AddChip([e |-> e, out |-> ZeroF], 0))

\* A returned value whose dither does not scale with the noise level.
SampleUnscaled(e, rnd) ==
  [mix |-> e.mix, volume |-> e.volume, att |-> SIDamount_vol[e.SIDamount + 1],
   noise |-> 2 * rnd - 1]

\* The value play() returns when the engine plays: the product
\* mix * volume * SIDamount_vol[SIDamount] (the factors are kept apart) and
\* the dither Math.random() * backgroundNoise - backgroundNoise / 2, in
\* 1/20000, for a draw rnd of 0 or (nearly) 1.
Sample(e, rnd) ==
  [mix |-> e.mix, volume |-> e.volume, att |-> SIDamount_vol[e.SIDamount + 1],
   noise |-> (2 * rnd - 1) * e.backgroundNoise]

Silence == [mix |-> ZeroF, volume |-> 0, att |-> 0, noise |-> 0]

\* this._CPUtime -= this._clk_ratio, after the loop
LoopDone(r) == [e |-> [r.e EXCEPT !.CPUtime = r.e.CPUtime - clk_ratio], steps |-> r.steps]

\* An instruction loop that runs whatever the finished flag says.
FrameAlways(e) == LoopDone(PlayLoop(e, 0))

\* if (!this._finished) { while ... }, e being the engine after the countdown
Frame(e) == IF e.finished THEN [e |-> e, steps |-> 0] ELSE LoopDone(PlayLoop(e, 0))

PlayDone(e, steps, rnd, frame) ==
  [e |-> e, ret |-> Sample(e, rnd), steps |-> steps, frame |-> frame]

Mixed(lp, rnd, frame) == PlayDone(Mix(lp.e), lp.steps, rnd, frame)

\* play(): the engine afterwards, the value returned, the number of CPU
\* instructions executed and whether a frame was started.
play(e, rnd) ==
  IF ~e.loaded \/ ~e.initialized
  THEN [e |-> e, ret |-> Silence, steps |-> 0, frame |-> FALSE]
  ELSE Mixed(Frame(FrameTick(e)), rnd, e.framecnt - FrameScale <= 0)

\* A model switch that also moves the oscillators of a 6581 half a cycle
\* on.
setSIDModelRetuned(e, model) ==
  [e EXCEPT !.SID_model = model,
            !.pacc = IF model = 6581 THEN Voices9(8388608) ELSE e.pacc]

\* setSIDModel(model), setVolume(vol)
setSIDModel(e, model) == [e EXCEPT !.SID_model = model]

setVolume(e, vol) == [e EXCEPT !.volume = vol]

\* resetSubtune()
resetSubtune(e) == init(e, e.subtune)

-----------------------------------------------------------------------------
(* Input files.  A file is a sequence of bytes: the 0x7c-byte header, the  *)
(* two-byte load address ($1000) and the program.                          *)

HeaderLen == 124

\* h: init and play address, number of songs, the low byte of the speed
\* flags, the second chip's address byte, the title's first byte.
MkFile(h, prog) ==
  [i \in 1..(HeaderLen + 2 + Len(prog)) |->
     LET k == i - 1
     IN  IF k = 0 THEN 80 ELSE IF k = 1 THEN 83 ELSE IF k = 2 THEN 73
         ELSE IF k = 3 THEN 68 ELSE IF k = 5 THEN 2
         ELSE IF k = 7 THEN HeaderLen
         ELSE IF k = 10 THEN h.init \div 256 ELSE IF k = 11 THEN h.init % 256
         ELSE IF k = 12 THEN h.play \div 256 ELSE IF k = 13 THEN h.play % 256
         ELSE IF k = 15 THEN h.songs
         ELSE IF k = 17 THEN 1
         ELSE IF k = 21 THEN h.speed
         ELSE IF k = 22 THEN h.title
         ELSE IF k = 122 THEN h.sid2
         ELSE IF k = HeaderLen THEN 0
         ELSE IF k = HeaderLen + 1 THEN 16
         ELSE IF k > HeaderLen + 1 THEN prog[k - HeaderLen - 1]
         ELSE 0]

\* $1000: LDA #$01; RTS -- init and play are the same routine
F_MIN ==
  MkFile([init |-> 4096, play |-> 4096, songs |-> 1, speed |-> 0, sid2 |-> 0,
          title |-> 77],
         <<169, 1, 96>>)

\* $1000 init (A = subtune): STA $DC04; LDA #$01; STA $DC05; LDA #$1F;
\*   STA $D418; LDA #$01; STA $D417; LDA #$18; STA $D416; LDA #$F0;
\*   STA $D406; LDA #$10; STA $D401; LDA #$21; STA $D404; RTS
\* $1027 play: INC $D401; RTS
\* Two songs, both timed by the CIA timer; one voice (sawtooth, gate on)
\* routed through the low-pass filter.
F_TUNE ==
  MkFile([init |-> 4096, play |-> 4135, songs |-> 2, speed |-> 3, sid2 |-> 0,
          title |-> 84],
         <<141, 4, 220, 169, 1, 141, 5, 220, 169, 31, 141, 24, 212,
           169, 1, 141, 23, 212, 169, 24, 141, 22, 212, 169, 240, 141, 6, 212,
           169, 16, 141, 1, 212, 169, 33, 141, 4, 212, 96,
           238, 1, 212, 96>>)

\* $1000 init: JMP $1000 -- never returns;  $1003 play: RTS
F_LOOP ==
  MkFile([init |-> 4096, play |-> 4099, songs |-> 1, speed |-> 0, sid2 |-> 0,
          title |-> 76],
         <<76, 0, 16, 96>>)

\* $1000 init: LDA #$01; STA $DC05; RTS
\* $1006 play: INX; CPX #$06; BCS $100C; RTS;  $100C: JMP $100C
\* The play routine returns at once in its first five frames and never in
\* its sixth.
F_DRIFT ==
  MkFile([init |-> 4096, play |-> 4102, songs |-> 1, speed |-> 1, sid2 |-> 0,
          title |-> 68],
         <<169, 1, 141, 5, 220, 96,
           232, 224, 6, 176, 1, 96, 76, 12, 16>>)

\* $1000 init (A = subtune): STA $02; LDA #$01; STA $DC05; LDA #$11;
\*   STA $D467; RTS
\* $100D play: INC $02; LDX $02; TXA; ORA #$80; STA $D420,X; INC $D420,X;
\*   RTS
\* The play routine stores to the next register address in every frame,
\* starting above $D420 + subtune, and then increments the byte stored.
\* One chip (F_CHIP1), a second chip at $D420 (F_CHIP2), a second at $D420
\* and a third at $D440 (F_CHIP3).
ChipProg ==
  <<133, 2, 169, 1, 141, 5, 220, 169, 17, 141, 103, 212, 96,
    230, 2, 166, 2, 138, 9, 128, 157, 32, 212, 254, 32, 212, 96>>

F_CHIP1 ==
  MkFile([init |-> 4096, play |-> 4109, songs |-> 1, speed |-> 1, sid2 |-> 0,
          title |-> 49], ChipProg)

F_CHIP2 ==
  MkFile([init |-> 4096, play |-> 4109, songs |-> 1, speed |-> 1, sid2 |-> 66,
          title |-> 50], ChipProg)

F_CHIP3 == [F_CHIP2 EXCEPT ![23] = 51, ![124] = 68]

\* A file with the explicit load address field (bytes 8, 9) set to b8, b9
\* and the first two bytes of the data block set to e0, e1; init address
\* field 0 (the load address is used).
HdrFile(b8, b9, e0, e1, playat, speed, prog) ==
  [MkFile([init |-> 0, play |-> playat, songs |-> 1, speed |-> speed, sid2 |-> 0,
           title |-> 72], prog)
     EXCEPT ![9] = b8, ![10] = b9, ![HeaderLen + 1] = e0, ![HeaderLen + 2] = e1]

\* <load address>: RTS (init);  + 1: RTS (play);  two more bytes.
\* No explicit load address (embedded $2000), explicit $1000, $0080 and
\* $3008 with $2000 embedded, and images that reach beyond the end of
\* memory: explicit $FFFE, embedded $FFFE.
F_LA00 == HdrFile(0, 0, 0, 32, 8193, 0, <<96, 96, 170, 187>>)

F_LA10 == HdrFile(16, 0, 0, 32, 4097, 0, <<96, 96, 170, 187>>)

F_LA01 == HdrFile(0, 128, 0, 32, 129, 0, <<96, 96, 170, 187>>)

F_LA11 == HdrFile(48, 8, 0, 32, 12297, 0, <<96, 96, 170, 187>>)

F_LAFF == HdrFile(255, 254, 0, 32, 65535, 0, <<96, 96, 170, 187>>)

F_LAEF == HdrFile(0, 0, 254, 255, 65535, 0, <<96, 96, 170, 187>>)

\* A program of 63 bytes: code, then RTS at offsets $1E, $30 and $3E
VecProg(code) ==
  [i \in 1..63 |-> IF i <= Len(code) THEN code[i]
                   ELSE IF (i - 1) \in {30, 48, 62} THEN 96 ELSE 0]

\* Play address field 0.  $1000 init (A = subtune): STA $0314; LDA #$10;
\*   STA $0315; LDA #$30; STA $FFFE; LDA #$10; STA $FFFF; RTS
\* The vector at $0314 is set to $1000 + subtune, the one at $FFFE to $1030.
\* F_VEC35 also stores $35 to $01 (LDA #$35; STA $01) before returning.
F_VEC37 ==
  HdrFile(0, 0, 0, 16, 0, 0,
          VecProg(<<141, 20, 3, 169, 16, 141, 21, 3, 169, 48, 141, 254, 255,
                    169, 16, 141, 255, 255, 96>>))

F_VEC35 ==
  HdrFile(0, 0, 0, 16, 0, 0,
          VecProg(<<141, 20, 3, 169, 16, 141, 21, 3, 169, 48, 141, 254, 255,
                    169, 16, 141, 255, 255, 169, 53, 133, 1, 96>>))

\* The speed field with the bits of subtunes 0 and 30 set (bits = 1) or
\* with no bit set (bits = 0)
TimerFile(bits, playat, prog) ==
  [HdrFile(0, 0, 0, 16, playat, bits, prog) EXCEPT ![19] = 64 * bits]

\* Init routines that write no timer latch register (RTS), the low byte
\* only (LDA #$40; STA $DC04; RTS), the high byte only (LDA #$01; STA $DC05;
\* RTS) and both; the play routine is the closing RTS.
T_NONE(bits) == TimerFile(bits, 4096, <<96>>)

T_LO(bits) == TimerFile(bits, 4101, <<169, 64, 141, 4, 220, 96>>)

T_HI(bits) == TimerFile(bits, 4101, <<169, 1, 141, 5, 220, 96>>)

T_BOTH(bits) == TimerFile(bits, 4106, <<169, 64, 141, 4, 220, 169, 1, 141, 5, 220, 96>>)

\* An empty file, and a file cut off inside the header
F_EMPTY == << >>

F_TRUNC == SubSeq(F_TUNE, 1, 12)

-----------------------------------------------------------------------------
(* What the last operation did, kept for the properties below.             *)
(*   kind   the operation                                                  *)
(*   arg    the subtune index passed to load / init                        *)
(*   short  the file loaded was too short to hold the header fields        *)
(*   steps  CPU instructions executed by the operation                     *)
(*   rc     status of the last instruction of init's loop                  *)
(*   ret    the value play() returned                                      *)
(*   frame  play() started a frame; tick is the engine right after the     *)
(*          frame countdown, before the play routine runs                  *)
(*   calls  play() calls made since the last init, frames those of them    *)
(*          that started a frame                                           *)
(*   cnt    play() calls made since the call that last started a frame     *)
(*   gap    at a frame start: calls since the previous frame start         *)
(*   per    the period loaded into the countdown at the last frame start,  *)
(*          prevP the one loaded at the frame start before                 *)

Obs0 ==
  [kind |-> "new", arg |-> 0, short |-> FALSE, steps |-> 0, rc |-> 0, ret |-> Silence,
   frame |-> FALSE,
   tick |-> [framecnt |-> 0, period |-> 0, finished |-> FALSE, PC |-> 0, SP |-> 0],
   calls |-> 0, frames |-> 0, cnt |-> 0, gap |-> 0, per |-> 0, prevP |-> 0]

\* after loadSIDData(filedata, s) or init(s), r being what the call did
ObsInit(kind, s, r) ==
  [Obs0 EXCEPT !.kind = kind, !.arg = s, !.steps = r.steps, !.rc = r.rc]

\* after play() on engine e with observations o
ObsPlay(o, e, r) ==
  LET t == FrameTick(e)
  IN  IF ~e.loaded \/ ~e.initialized
      THEN [o EXCEPT !.kind = "play", !.steps = 0, !.ret = r.ret, !.frame = FALSE]
      ELSE [o EXCEPT !.kind = "play", !.steps = r.steps, !.ret = r.ret,
                     !.frame = r.frame,
                     !.tick = [framecnt |-> t.framecnt,
                               period |-> e.frame_sampleperiod,
                               finished |-> t.finished, PC |-> t.PC, SP |-> t.SP],
                     !.calls = o.calls + 1,
                     !.frames = o.frames + B2N(r.frame),
                     !.cnt = IF r.frame THEN 0 ELSE o.cnt + 1,
                     !.gap = IF r.frame THEN o.cnt + 1 ELSE o.gap,
                     !.per = IF r.frame THEN e.frame_sampleperiod ELSE o.per,
                     !.prevP = IF r.frame THEN o.per ELSE o.prevP]

\* Values Math.random() may return: the least and (nearly) the greatest
RandomDraws == {0, 1}

\* The value of a variable that a specification does not use
NoEngine == [loaded |-> FALSE, initialized |-> FALSE]

NoPlayer == [loaded |-> FALSE, playing |-> FALSE]

\* The player record: whether the audio context and the engine exist,
\* SIDPlayer's _loaded and _isPlaying, the load whose fetch is outstanding
\* (a sequence of at most one [file, subtune]), the engine as it was when
\* that load was requested, whether another operation was called since,
\* and the numbers of operations and loads requested so far.
Player0 ==
  [ctx |-> FALSE, loaded |-> FALSE, playing |-> FALSE, pending |-> << >>,
   before |-> NewEngine, touched |-> FALSE, ops |-> 0, loads |-> 0]

-----------------------------------------------------------------------------
(* SpecRun: one engine, loaded once, then played for MaxRun samples.       *)

MaxRun == 125

RunFiles == {F_MIN, F_TUNE, F_LOOP, F_DRIFT}

RunSubtunes == {0, 8}

Models == {6581, 8580}

RunInit ==
  /\ eng = NewEngine
  /\ twin = NoEngine
  /\ ref = NoEngine
  /\ pl = NoPlayer
  /\ obs = Obs0
  /\ depth = 0

RunModel(m) ==
  /\ ~eng.loaded
  /\ eng.SID_model # m
  /\ eng' = setSIDModel(eng, m)
  /\ obs' = [Obs0 EXCEPT !.kind = "model"]
  /\ UNCHANGED <<twin, ref, pl, depth>>

RunLoad(f, s) ==
  /\ ~eng.loaded
  /\ \E r \in {LoadTrace(eng, f, s)} :
       /\ eng' = r.e
       /\ obs' = ObsInit("load", s, r)
  /\ UNCHANGED <<twin, ref, pl, depth>>

RunPlay(rnd) ==
  /\ eng.loaded
  /\ eng.playtime < MaxRun
  /\ \E r \in {play(eng, rnd)} :
       /\ eng' = r.e
       /\ obs' = ObsPlay(obs, eng, r)
  /\ UNCHANGED <<twin, ref, pl, depth>>

RunNext ==
  \/ \E m \in Models : RunModel(m)
  \/ \E f \in RunFiles, s \in RunSubtunes : RunLoad(f, s)
  \/ \E rnd \in RandomDraws : RunPlay(rnd)

SpecRun == RunInit /\ [][RunNext]_vars

\* The most instructions one play() call executes when the cycle counter
\* starts the call at zero or above: every instruction takes two cycles or
\* more and the loop runs while the counter is at most clk_ratio.
StepBound == clk_ratio + 1

\* C7: one call of play executes at most StepBound instructions, however
\* many samples and frames came before, and the cycle counter carried
\* between calls stays within [-clk_ratio, clk_ratio].
C7_BoundedWorkPerSample ==
  obs.kind = "play" =>
    /\ obs.steps <= StepBound
    /\ eng.CPUtime >= -clk_ratio
    /\ eng.CPUtime <= clk_ratio

\* C8: init always ends with the engine initialized, after at most
\* InitBudget + 1 instructions; it stops short of the budget only at an
\* instruction that reported a return underflow (status 0xfe or 0xff), never
\* runs past one, and the routine LDA #$01; RTS of F_MIN stops it after two
\* instructions.
C8_InitTerminates ==
  obs.kind = "load" =>
    /\ eng.loaded /\ eng.initialized
    /\ obs.steps <= InitBudget + 1
    /\ obs.rc \in {0, 254, 255}
    /\ obs.rc = 0 => obs.steps = InitBudget + 1
    /\ eng.title[0] = 77 => obs.steps = 2 /\ obs.rc = 255
    /\ eng.title[0] = 84 => obs.steps = 16 /\ obs.rc = 255

\* init ran out of budget (F_LOOP never returns) and the engine is
\* initialized all the same.
C8_BudgetExhausted ==
  /\ obs.kind = "load" /\ obs.rc = 0 /\ obs.steps = InitBudget + 1
  /\ eng.title[0] = 76 /\ eng.initialized

\* ceil(p / FrameScale), the number of calls a countdown of p lasts, at
\* least one
CallsOf(p) == IF p <= FrameScale THEN 1 ELSE (p + FrameScale - 1) \div FrameScale

\* C10 (as the code has it): the first play() after init starts a frame;
\* at every frame start the countdown is set to the frame period, the
\* finished flag is cleared, PC is the play address and SP is 0xff; a
\* frame that starts with period P is followed by the next frame start
\* ceil(P) calls later (the fraction of a sample left in the countdown is
\* dropped), which is P calls when P is a whole number.
C10_FrameScheduling ==
  obs.kind = "play" =>
    /\ obs.calls = 1 => obs.frame
    /\ obs.frame => /\ obs.tick.framecnt = obs.tick.period
                    /\ ~obs.tick.finished
                    /\ obs.tick.PC = eng.playaddr
                    /\ obs.tick.SP = 255
    /\ (obs.frame /\ obs.frames > 1) => obs.gap = CallsOf(obs.prevP)
    /\ ~obs.frame => obs.cnt < CallsOf(obs.per)

\* A frame start that follows a frame of a fractional period (23.27
\* samples: timer latch 256)
C10_FractionalFrame ==
  /\ obs.kind = "play" /\ obs.frame /\ obs.frames > 1
  /\ obs.prevP % FrameScale # 0
  /\ obs.gap = 24

\* C10 as stated: every later frame starts exactly P calls after the
\* previous one.
C10_ExactlyPCalls ==
  (obs.kind = "play" /\ obs.frame /\ obs.frames > 1) =>
    obs.gap * FrameScale = obs.prevP

\* The CPU's registers, and the memory the CPU writes: all of it but the
\* read-back registers 0x1b and 0x1c of each chip, which _SID stores on
\* every call.
CpuRegs(e) == <<e.PC, e.A, e.X, e.Y, e.SP, e.ST>>

CpuMemory(e) ==
  [a \in {x \in DOMAIN e.memory :
            \A num \in 0..2 : ChipAddr(e, num) = 0
                               \/ x \notin {ChipAddr(e, num) + 27, ChipAddr(e, num) + 28}}
     |-> e.memory[a]]

\* C11: a play() call entered with the finished flag set and the frame
\* countdown not yet run out executes no CPU instruction: the flag stays
\* set and the CPU registers and the memory the CPU writes are unchanged.
C11_FinishedFrameIdle ==
  [][(/\ eng.loaded /\ eng.initialized /\ eng.finished
      /\ eng'.playtime = eng.playtime + 1
      /\ eng.framecnt - FrameScale > 0)
     => (/\ eng'.finished
         /\ obs'.steps = 0
         /\ CpuRegs(eng') = CpuRegs(eng)
         /\ CpuMemory(eng') = CpuMemory(eng))]_vars

\* A call made inside a frame whose play routine has returned: the flag
\* was set at entry, no frame started, nothing was executed
C11_IdleCall ==
  /\ obs.kind = "play" /\ ~obs.frame /\ obs.tick.finished
  /\ obs.steps = 0 /\ eng.finished /\ obs.calls > 1

-----------------------------------------------------------------------------
(* SpecStore: one engine, loaded once, followed instruction by instruction *)
(* through init's loop and through the instruction loop of successive      *)
(* play() calls.  obs.phase is the position in the code: "init" in init's  *)
(* loop (obs.timeout is the loop counter), "idle" between play() calls,    *)
(* "loop" at the head of play's while loop, "end" after a break out of it, *)
(* "mix" when the loop was skipped.  obs.IR and obs.M0 are the opcode of   *)
(* the instruction last executed and the memory before it; obs.file is the *)
(* file loaded, obs.inits the number of init calls made, obs.latch whether *)
(* an instruction of the current init call wrote to 0xDC04 or 0xDC05, and  *)
(* obs.MI the memory when init's loop was last left; obs.frames and        *)
(* obs.calls count the frames started and the play() calls made, and       *)
(* obs.frame tells whether the last play() call started a frame.           *)

MaxStoreFrames == 2

MaxInits == 2

MaxStoreCalls == 50

StoreFiles == {F_CHIP1, F_CHIP2, F_CHIP3}

\* Subtune numbers: the play routine's first store goes to $D421 + subtune
StoreStarts == {0, 30, 62}

\* Opcode IR writes a byte to memory at its operand address: STA/SAX, STX
\* and STY, and the shifts, rotates, DEC and INC on memory
WritesMemory(IR) ==
  IF BitAnd(IR, 1) # 0 THEN BitAnd(IR, 224) = 128
  ELSE IF BitAnd(IR, 2) # 0
    THEN IF BitAnd(IR, 224) \in {0, 32, 64, 96} THEN BitAnd(IR, 15) # 10
         ELSE BitAnd(IR, 224) \in {128, 192, 224} /\ BitAnd(IR, 4) # 0
  ELSE BitAnd(IR, 12) # 8 /\ BitAnd(IR, 31) # 16 /\ BitAnd(IR, 224) = 128

StoreObs0 ==
  [kind |-> "new", phase |-> "new", IR |-> 0, M0 |-> ZeroMem, timeout |-> 0,
   frames |-> 0, calls |-> 0, frame |-> FALSE, file |-> << >>, inits |-> 0, latch |-> FALSE,
   MI |-> ZeroMem]

StoreInit ==
  /\ eng = NewEngine
  /\ twin = NoEngine
  /\ ref = NoEngine
  /\ pl = NoPlayer
  /\ obs = StoreObs0
  /\ depth = 0

\* loadSIDData(f, s) up to the head of init's loop
StoreLoad(f, s) ==
  /\ obs.phase = "new"
  /\ eng' = InitEntry(LoadHeader(eng, f, s), s)
  /\ obs' = [StoreObs0 EXCEPT !.kind = "load", !.phase = "init",
                              !.timeout = InitBudget, !.file = f, !.inits = 1]
  /\ UNCHANGED <<twin, ref, pl, depth>>

\* One pass of init's loop; after the last one, the rest of init
StoreInitPass ==
  /\ obs.phase = "init"
  /\ \E r \in {InitLoop(eng, 0, 0)} :
       \E last \in {r.rc # 0 \/ obs.timeout = 0} :
         /\ eng' = IF last THEN InitFinish(r.e) ELSE r.e
         /\ obs' = [obs EXCEPT !.kind = "initpass",
                               !.phase = IF last THEN "idle" ELSE "init",
                               !.IR = I32(Rd(eng.memory, eng.PC)),
                               !.M0 = eng.memory,
                               !.timeout = obs.timeout - 1,
                               !.latch = \/ obs.latch
                                         \/ /\ WritesMemory(I32(Rd(eng.memory, eng.PC)))
                                            /\ r.e.addr \in {56324, 56325},
                               !.MI = r.e.memory]
  /\ UNCHANGED <<twin, ref, pl, depth>>

\* init(s) called again before the first play(), up to the head of its
\* loop
StoreInitCall(s) ==
  /\ obs.phase = "idle" /\ obs.kind = "initpass"
  /\ obs.inits < MaxInits
  /\ eng' = InitEntry(eng, s)
  /\ obs' = [obs EXCEPT !.kind = "init", !.phase = "init", !.timeout = InitBudget,
                        !.inits = obs.inits + 1, !.latch = FALSE]
  /\ UNCHANGED <<twin, ref, pl, depth>>

\* play() up to the test of the finished flag
StoreEnter ==
  /\ obs.phase = "idle"
  /\ obs.frames < MaxStoreFrames \/ eng.framecnt - FrameScale > 0
  /\ obs.calls < MaxStoreCalls
  /\ eng' = FrameTick(eng)
  /\ obs' = [obs EXCEPT !.kind = "enter",
                        !.calls = obs.calls + 1,
                        !.frame = eng.framecnt - FrameScale <= 0,
                        !.phase = IF eng'.finished THEN "mix" ELSE "loop",
                        !.frames = obs.frames + B2N(eng.framecnt - FrameScale <= 0)]
  /\ UNCHANGED <<twin, ref, pl, depth>>

\* One pass of play's instruction loop
StorePass ==
  /\ obs.phase = "loop"
  /\ eng.CPUtime <= clk_ratio
  /\ eng' = LoopPass(eng)
  /\ obs' = [obs EXCEPT !.kind = "pass",
                        !.phase = IF eng'.finished THEN "end" ELSE "loop",
                        !.IR = I32(Rd(eng.memory, eng.PC)),
                        !.M0 = eng.memory]
  /\ UNCHANGED <<twin, ref, pl, depth>>

\* The rest of play(): the cycle counter after the loop, the mix
StoreLeave ==
  /\ \/ obs.phase = "loop" /\ eng.CPUtime > clk_ratio
     \/ obs.phase \in {"end", "mix"}
  /\ eng' = Mix(IF obs.phase = "mix" THEN eng
                ELSE [eng EXCEPT !.CPUtime = eng.CPUtime - clk_ratio])
  /\ obs' = [obs EXCEPT !.kind = "leave", !.phase = "idle"]
  /\ UNCHANGED <<twin, ref, pl, depth>>

StoreNext ==
  \/ \E f \in StoreFiles, s \in StoreStarts : StoreLoad(f, s)
  \/ StoreInitPass
  \/ StoreEnter
  \/ StorePass
  \/ StoreLeave

SpecStore == StoreInit /\ [][StoreNext]_vars

\* Address a lies in the first width bytes of the register window of a
\* configured second or third chip
InWindow(e, a, width) ==
  \E num \in 1..2 : /\ ChipAddr(e, num) # 0
                    /\ ChipAddr(e, num) <= a
                    /\ a < ChipAddr(e, num) + width

\* Memory after a store to a under the mirroring rule with windows of
\* width bytes, M0 being the memory before the store: memory[a] holds the
\* byte stored, and outside a window so does 0xD400 + (a mod 32)
StoreEffect(e, M0, a, width) ==
  IF InWindow(e, a, width) THEN Wr(M0, a, Rd(e.memory, a))
  ELSE Wr(Wr(M0, a, Rd(e.memory, a)), 54272 + (a % 32), Rd(e.memory, a))

\* The last instruction of play's loop stored to an address in
\* 0xD420 .. 0xD7FF
StoredToMirror == obs.kind = "pass" /\ eng.sta >= 54304 /\ eng.sta < 55296

\* C12: a store by the play routine to a in 0xD420 .. 0xD7FF changes
\* memory[a] alone when a lies in the 32-byte window of a configured second
\* or third chip, and otherwise memory[a] and memory[0xD400 + (a mod 32)].
C12_MirroringRule ==
  StoredToMirror => eng.memory = StoreEffect(eng, obs.M0, eng.sta, 32)

\* The instruction last executed, in init's loop or in play's, wrote to an
\* address in 0xD420 .. 0xD7FF
WroteToMirror ==
  /\ obs.kind \in {"initpass", "pass"}
  /\ WritesMemory(obs.IR)
  /\ eng.addr # NaN /\ eng.addr >= 54304 /\ eng.addr < 55296

\* C13: after every instruction that writes to an address in
\* 0xD420 .. 0xD7FF, in init and in play, stores and read-modify-write
\* instructions alike, the last store address is that address and the
\* mirroring rule has been applied to it.
C13_EveryWriteMirrored ==
  WroteToMirror => /\ eng.sta = eng.addr
                   /\ eng.memory = StoreEffect(eng, obs.M0, eng.addr, 32)

-----------------------------------------------------------------------------
(* SpecFilter: one engine set to the 6581 model, loaded with F_TUNE (one   *)
(* voice through the low-pass filter, cutoff register $18) and played for  *)
(* MaxFilterRun samples.                                                   *)

MaxFilterRun == 10100

FilterInit ==
  /\ eng = setSIDModel(NewEngine, 6581)
  /\ twin = NoEngine
  /\ ref = NoEngine
  /\ pl = NoPlayer
  /\ obs = Obs0
  /\ depth = 0

FilterLoad(s) ==
  /\ ~eng.loaded
  /\ \E r \in {LoadTrace(eng, F_TUNE, s)} :
       /\ eng' = r.e
       /\ obs' = ObsInit("load", s, r)
  /\ UNCHANGED <<twin, ref, pl, depth>>

FilterPlay(rnd) ==
  /\ eng.loaded
  /\ eng.playtime < MaxFilterRun
  /\ \E r \in {play(eng, rnd)} :
       /\ eng' = r.e
       /\ obs' = ObsPlay(obs, eng, r)
  /\ UNCHANGED <<twin, ref, pl, depth>>

FilterNext ==
  \/ \E s \in {0, 1} : FilterLoad(s)
  \/ \E rnd \in {0} : FilterPlay(rnd)

SpecFilter == FilterInit /\ [][FilterNext]_vars

\* The number play() returned is finite: the product of the mix, the
\* volume and the chip-count attenuation, plus the dither.
FiniteSample(ret) == Finite(FMul(ret.mix, FromInt(ret.volume * ret.att)))

\* C6: after a successful load every call of play returns a finite number.
C6_PlayReturnsFinite ==
  (obs.kind = "play" /\ eng.loaded /\ eng.initialized) => FiniteSample(obs.ret)

-----------------------------------------------------------------------------
(* SpecCPU: the instruction loop of init taken one _CPU() call at a time,  *)
(* on small routines that call, push, pull and move the stack pointer.     *)
(* depth counts the calls (JSR, BRK) not yet returned from since the CPU   *)
(* was reset.                                                              *)

\* A file whose init routine is prog
Routine(prog, tag) ==
  MkFile([init |-> 4096, play |-> 4096, songs |-> 1, speed |-> 0, sid2 |-> 0,
          title |-> tag], prog)

\* JSR $1004; RTS; $1004: RTS
P_CALL == Routine(<<32, 4, 16, 96, 96>>, 1)

\* PHA; PHA; RTS
P_PUSH == Routine(<<72, 72, 96>>, 2)

\* JSR $1003; $1003: PLA; PLA; RTS
P_PULL == Routine(<<32, 3, 16, 104, 104, 96>>, 3)

\* JSR $1003; $1003: LDX #$FF; TXS; RTS
P_TXS == Routine(<<32, 3, 16, 162, 255, 154, 96>>, 4)

\* LDX #$80; TXS; RTS
P_TXS80 == Routine(<<162, 128, 154, 96>>, 5)

\* RTI
P_RTI == Routine(<<64>>, 6)

\* PHA; PHA; PHA; RTI
P_PUSHRTI == Routine(<<72, 72, 72, 64>>, 7)

\* $1000: INX; CPX #$81; BCS $1009; JSR $1000; $1009: RTS -- 128 nested calls
P_DEEP == Routine(<<232, 224, 129, 176, 3, 32, 0, 16, 96>>, 8)

\* $1000: INX; CPX #$04; BCS $1009; JSR $1000; $1009: RTS -- 3 nested calls
P_NEST == Routine(<<232, 224, 4, 176, 3, 32, 0, 16, 96>>, 9)

Routines == {P_CALL, P_PUSH, P_PULL, P_TXS, P_TXS80, P_RTI, P_PUSHRTI, P_DEEP, P_NEST}

MaxCpuSteps == 530

\* What the last _CPU() call did: the opcode, SP and depth before it, the
\* status it returned, the number of calls made.
CpuObs0 == [kind |-> "reset", op |-> 0, sp |-> 255, d |-> 0, rc |-> 0, n |-> 0]

IsReturn(IR) == IR \in {64, 96}

IsCall(IR) == IR \in {0, 32}

CpuInit ==
  /\ eng = NewEngine
  /\ twin = NoEngine
  /\ ref = NoEngine
  /\ pl = NoPlayer
  /\ obs = CpuObs0
  /\ depth = 0

\* loadSIDData up to the head of init's instruction loop
CpuReset(f) ==
  /\ ~eng.loaded
  /\ eng' = InitEntry(LoadHeader(eng, f, 0), 0)
  /\ obs' = CpuObs0
  /\ depth' = 0
  /\ UNCHANGED <<twin, ref, pl>>

\* One pass of init's loop: this._CPU(), until it returns non-zero.
CpuStep ==
  /\ eng.loaded
  /\ obs.rc = 0
  /\ obs.n < MaxCpuSteps
  /\ \E IR \in {Rd(eng.memory, eng.PC)}, r \in {CPU(eng)} :
       /\ eng' = r.e
       /\ obs' = [kind |-> "step", op |-> IR, sp |-> eng.SP, d |-> depth,
                  rc |-> r.rc, n |-> obs.n + 1]
       /\ depth' = IF IsCall(IR) THEN depth + 1
                   ELSE IF IsReturn(IR) /\ r.rc = 0 /\ depth > 0 THEN depth - 1
                   ELSE depth
  /\ UNCHANGED <<twin, ref, pl>>

CpuNext ==
  \/ \E f \in Routines : CpuReset(f)
  \/ CpuStep

SpecCPU == CpuInit /\ [][CpuNext]_vars

\* C9 (as the code has it): _CPU() returns non-zero exactly when it
\* executes RTS or RTI with the stack pointer at 0xff, 0xff for RTS and
\* 0xfe for RTI; as long as the stack pointer stands two bytes lower per
\* open call (no unmatched push or pull, no TXS, fewer than 128 open calls)
\* that is exactly a return at call depth zero.
C9_UnderflowIffStackEmpty ==
  obs.kind = "step" =>
    /\ obs.rc # 0 <=> (IsReturn(obs.op) /\ obs.sp >= 255)
    /\ obs.rc # 0 => obs.rc = (IF obs.op = 96 THEN 255 ELSE 254)
    /\ (IsReturn(obs.op) /\ obs.d < 128 /\ obs.sp = 255 - 2 * obs.d)
         => (obs.rc # 0 <=> obs.d = 0)

\* A return with a matching call on the stack reports an underflow
\* (P_TXS, P_PULL: the stack pointer was moved back to 0xff).
C9_ReportedInsideCall ==
  obs.kind = "step" /\ IsReturn(obs.op) /\ obs.rc # 0 /\ obs.d > 0

\* C9 as stated: a return reports an underflow exactly when the call depth
\* is zero.
C9_UnderflowIffDepthZero ==
  (obs.kind = "step" /\ IsReturn(obs.op)) => (obs.rc # 0 <=> obs.d = 0)

-----------------------------------------------------------------------------
(* SpecTwin: two engines constructed alike (same sample rate, same noise   *)
(* level), given the same model, file and subtune, and played side by      *)
(* side; each play() call makes its own Math.random() draw.                *)

MaxTwinRun == 60

TwinFiles == {F_MIN, F_TUNE, F_DRIFT}

NoiseLevels == {0, DefaultNoise}

\* The values the two engines returned from their last play() calls
TwinObs0 == [kind |-> "new", ret |-> Silence, ret2 |-> Silence]

TwinInit ==
  /\ \E bn \in NoiseLevels :
       /\ eng = [NewEngine EXCEPT !.backgroundNoise = bn]
       /\ twin = [NewEngine EXCEPT !.backgroundNoise = bn]
  /\ ref = NoEngine
  /\ pl = NoPlayer
  /\ obs = TwinObs0
  /\ depth = 0

TwinModel(m) ==
  /\ ~eng.loaded
  /\ eng.SID_model # m
  /\ eng' = setSIDModel(eng, m)
  /\ twin' = setSIDModel(twin, m)
  /\ obs' = [TwinObs0 EXCEPT !.kind = "model"]
  /\ UNCHANGED <<ref, pl, depth>>

TwinLoad(f, s) ==
  /\ ~eng.loaded
  /\ \E r \in {LoadEach(<<eng, twin>>, f, s)} :
       /\ eng' = r[1].e
       /\ twin' = r[2].e
  /\ obs' = [TwinObs0 EXCEPT !.kind = "load"]
  /\ UNCHANGED <<ref, pl, depth>>

TwinPlay(rnd1, rnd2) ==
  /\ eng.loaded
  /\ eng.playtime < MaxTwinRun
  /\ \E r1 \in {play(eng, rnd1)}, r2 \in {play(twin, rnd2)} :
       /\ eng' = r1.e
       /\ twin' = r2.e
       /\ obs' = [kind |-> "play", ret |-> r1.ret, ret2 |-> r2.ret]
  /\ UNCHANGED <<ref, pl, depth>>

TwinNext ==
  \/ \E m \in Models : TwinModel(m)
  \/ \E f \in TwinFiles, s \in {0, 1} : TwinLoad(f, s)
  \/ \E rnd1 \in RandomDraws, rnd2 \in RandomDraws : TwinPlay(rnd1, rnd2)

SpecTwin == TwinInit /\ [][TwinNext]_vars

\* C2 (as the code has it): the two engines stay in the same state and
\* their returned samples have the same mix, volume and attenuation; the
\* samples differ by the dither alone, each dither within half the noise
\* level of zero, and are identical when the noise level is zero.
C2_DeterministicUpToDither ==
  /\ eng = twin
  /\ obs.kind = "play" =>
       /\ obs.ret.mix = obs.ret2.mix
       /\ obs.ret.volume = obs.ret2.volume
       /\ obs.ret.att = obs.ret2.att
       /\ obs.ret.noise \in (-eng.backgroundNoise)..eng.backgroundNoise
       /\ obs.ret2.noise \in (-eng.backgroundNoise)..eng.backgroundNoise
       /\ eng.backgroundNoise = 0 => obs.ret = obs.ret2

\* Two sounding samples that differ by their dither
C2_SamplesDiffer ==
  /\ obs.kind = "play"
  /\ obs.ret.mix # ZeroF
  /\ obs.ret.mix = obs.ret2.mix
  /\ obs.ret.noise # obs.ret2.noise

\* C2 as stated: the two engines return identical samples on every call.
C2_IdenticalSamples == obs.kind = "play" => obs.ret = obs.ret2

-----------------------------------------------------------------------------
(* Spec: a SIDPlayer and its engine under load (request, then the fetch    *)
(* succeeding or failing), setSubtune, play, pause, the audio callback,    *)
(* setModel and setVolume.  ref is an engine that is constructed afresh    *)
(* at every load and is given the same loadSIDData / init calls as eng,    *)
(* but is never played.                                                    *)

MaxOps == 4

MaxLoads == 2

\* samples per audio callback (the bufferLength given to the constructor)
BufferLength == 2

Files == {F_TUNE, F_MIN, F_EMPTY, F_TRUNC}

Subtunes == {-1, 0, 2}

Volumes == {5, VolScale}

\* The file ends before the header fields, or before data offset + 2
TooShort(f) == Len(f) < HeaderLen \/ Len(f) < FB(f, 7) + 2

\* SIDPlayer.pause(); SIDPlayer.play()
Paused(p) == [p EXCEPT !.playing = FALSE]

Playing(p) == IF p.loaded /\ p.ctx THEN [p EXCEPT !.playing = TRUE] ELSE p

\* SIDPlayer.stop() on the engine: resetSubtune() if a track is loaded
Stopped(p, e) == IF p.ctx /\ p.loaded THEN resetSubtune(e) ELSE e

\* The same call made on the player's engine and on the reference engine
StopEach(p, es) == [i \in DOMAIN es |-> Stopped(p, es[i])]

InitEach(es, s) == [i \in DOMAIN es |-> InitTrace(es[i], s)]

Op(p) == [p EXCEPT !.ops = p.ops + 1, !.touched = TRUE]

Init ==
  /\ eng = NewEngine
  /\ twin = NoEngine
  /\ ref = NewEngine
  /\ pl = Player0
  /\ obs = Obs0
  /\ depth = 0

\* load(url, subtune) up to the fetch: _ensureAudioContext(); stop()
Load(f, s) ==
  /\ pl.ops < MaxOps
  /\ pl.loads < MaxLoads
  /\ pl.pending = << >>
  /\ \E r \in {StopEach(pl, <<eng, ref>>)} :
       /\ eng' = r[1]
       /\ ref' = r[2]
  /\ pl' = [Op(Paused(pl)) EXCEPT !.ctx = TRUE, !.pending = <<[file |-> f, subtune |-> s]>>,
                                  !.before = eng, !.touched = FALSE,
                                  !.loads = pl.loads + 1]
  /\ obs' = [Obs0 EXCEPT !.kind = "request"]
  /\ UNCHANGED <<twin, depth>>

\* the fetch succeeded: loadSIDData(data, subtune); _loaded = true
FetchOk ==
  /\ pl.pending # << >>
  /\ \E f \in {pl.pending[1].file}, s \in {pl.pending[1].subtune} :
       \E r \in {LoadEach(<<eng, [NewEngine EXCEPT !.SID_model = eng.SID_model,
                                                  !.volume = eng.volume]>>, f, s)} :
         /\ eng' = r[1].e
         /\ ref' = r[2].e
         /\ obs' = [ObsInit("load", s, r[1]) EXCEPT !.short = TooShort(f)]
  /\ pl' = [pl EXCEPT !.loaded = TRUE, !.pending = << >>]
  /\ UNCHANGED <<twin, depth>>

\* the fetch failed (network error or HTTP status): the promise rejects
FetchFail ==
  /\ pl.pending # << >>
  /\ pl' = [pl EXCEPT !.pending = << >>]
  /\ obs' = [Obs0 EXCEPT !.kind = "fail"]
  /\ UNCHANGED <<eng, twin, ref, depth>>

\* setSubtune(index)
SetSubtune(s) ==
  /\ pl.ops < MaxOps
  /\ pl.loaded
  /\ \E r \in {InitEach(<<eng, ref>>, s)} :
       /\ eng' = r[1].e
       /\ ref' = r[2].e
       /\ obs' = ObsInit("init", s, r[1])
  /\ pl' = Op(IF pl.playing THEN Playing(Paused(pl)) ELSE Paused(pl))
  /\ UNCHANGED <<twin, depth>>

\* play()
Play ==
  /\ pl.ops < MaxOps
  /\ pl.loaded /\ pl.ctx /\ ~pl.playing
  /\ pl' = Op(Playing(pl))
  /\ obs' = [Obs0 EXCEPT !.kind = "start"]
  /\ UNCHANGED <<eng, twin, ref, depth>>

\* pause()
Pause ==
  /\ pl.ops < MaxOps
  /\ pl.playing
  /\ pl' = Op(Paused(pl))
  /\ obs' = [Obs0 EXCEPT !.kind = "pause"]
  /\ UNCHANGED <<eng, twin, ref, depth>>

\* onaudioprocess: for (i = 0; i < outData.length; i++) outData[i] = engine.play()
\* r is what the last play() call did, n the samples left to fill
RECURSIVE FillBuffer(_, _, _)
FillBuffer(r, rnd, n) ==
  IF n = 0 THEN r ELSE FillBuffer(play(r.e, rnd), rnd, n - 1)

AudioProcess(rnd) ==
  /\ pl.ops < MaxOps
  /\ pl.playing
  /\ \E r \in {FillBuffer([e |-> eng, ret |-> Silence, steps |-> 0, frame |-> FALSE],
                            rnd, BufferLength)} :
       /\ eng' = r.e
       /\ obs' = [Obs0 EXCEPT !.kind = "play", !.ret = r.ret, !.steps = r.steps,
                              !.frame = r.frame]
  /\ pl' = Op(pl)
  /\ UNCHANGED <<twin, ref, depth>>

\* setModel(model): 6581 if model === 6581, else 8580
SetModel(m) ==
  /\ pl.ops < MaxOps
  /\ pl.ctx
  /\ eng.SID_model # m
  /\ eng' = setSIDModel(eng, m)
  /\ ref' = setSIDModel(ref, m)
  /\ pl' = Op(pl)
  /\ obs' = [Obs0 EXCEPT !.kind = "model"]
  /\ UNCHANGED <<twin, depth>>

\* setVolume(vol)
SetVolume(v) ==
  /\ pl.ops < MaxOps
  /\ pl.ctx
  /\ eng.volume # v
  /\ eng' = setVolume(eng, v)
  /\ ref' = setVolume(ref, v)
  /\ pl' = Op(pl)
  /\ obs' = [Obs0 EXCEPT !.kind = "volume"]
  /\ UNCHANGED <<twin, depth>>

Next ==
  \/ \E f \in Files, s \in Subtunes : Load(f, s)
  \/ FetchOk
  \/ FetchFail
  \/ \E s \in Subtunes : SetSubtune(s)
  \/ Play
  \/ Pause
  \/ \E rnd \in RandomDraws : AudioProcess(rnd)
  \/ \E m \in Models : SetModel(m)
  \/ \E v \in Volumes : SetVolume(v)

Spec == Init /\ [][Next]_vars

\* C1: after load(bytes, s) and after init(s) the active subtune index is
\* within 0 .. subtune count - 1, whatever s was.
C1_SubtuneInRange ==
  (obs.kind \in {"load", "init"} /\ eng.subtune_amount # NaN) =>
    (0 <= eng.subtune /\ eng.subtune < eng.subtune_amount)

\* The fields of CpuState, VoiceState, ChipState and PlaybackState
ResetState(e) ==
  [PC |-> e.PC, A |-> e.A, X |-> e.X, Y |-> e.Y, SP |-> e.SP, ST |-> e.ST,
   cyc |-> e.cyc,
   pacc |-> e.pacc, pracc |-> e.pracc, nLFSR |-> e.nLFSR,
   prevwfout |-> e.prevwfout, pwv |-> e.pwv, envcnt |-> e.envcnt,
   expcnt |-> e.expcnt, rcnt |-> e.rcnt, Ast |-> e.Ast, pSR |-> e.pSR,
   sMSB |-> e.sMSB, sMSBrise |-> e.sMSBrise, plp |-> e.plp, pbp |-> e.pbp,
   subtune |-> e.subtune, playtime |-> e.playtime, framecnt |-> e.framecnt,
   finished |-> e.finished, frame_sampleperiod |-> e.frame_sampleperiod,
   CPUtime |-> e.CPUtime]

\* C3: after a load or an init the CPU, voice, filter and playback state
\* of an engine with a history equals that of the engine constructed
\* afresh and given the same load and init calls.
C3_NoStateLeak ==
  obs.kind \in {"load", "init"} => ResetState(eng) = ResetState(ref)

\* C4: when a load requested while a track was loaded fails (the fetch
\* fails, or the file is too short to parse) and nothing else was called
\* in between, the engine is as it was before the request.
C4_FailedLoadAtomic ==
  /\ (obs.kind = "fail" /\ pl.before.loaded /\ ~pl.touched) => eng = pl.before
  /\ (obs.kind = "load" /\ obs.short /\ pl.before.loaded /\ ~pl.touched)
       => eng = pl.before

\* C5: loading a file too short to hold the header fields does not end
\* with the engine loaded and initialized.
C5_ShortFileRejected ==
  (obs.kind = "load" /\ obs.short) => ~(eng.loaded /\ eng.initialized)

-----------------------------------------------------------------------------
(* SpecHeader: as SpecStore, on files that differ in their header fields   *)
(* (load address, play address, speed) and in what their init routines     *)
(* write, with init called up to MaxInits times.                           *)

HdrFiles ==
  {F_LA00, F_LA10, F_LA01, F_LA11, F_LAFF, F_LAEF, F_VEC37, F_VEC35}
  \cup {T_NONE(b) : b \in {0, 1}} \cup {T_LO(b) : b \in {0, 1}}
  \cup {T_HI(b) : b \in {0, 1}} \cup {T_BOTH(b) : b \in {0, 1}}

HdrNext ==
  \/ \E f \in HdrFiles, s \in StoreStarts : StoreLoad(f, s)
  \/ StoreInitPass
  \/ \E s \in StoreStarts : StoreInitCall(s)
  \/ StoreEnter
  \/ StorePass
  \/ StoreLeave

SpecHeader == StoreInit /\ [][HdrNext]_vars

\* The explicit load address field of a file (bytes 8 and 9, high byte
\* first) and the address embedded at the data offset (low byte first)
ExplicitLoad(f) == f[9] * 256 + f[10]

EmbeddedLoad(f) == f[f[8] + 1] + 256 * f[f[8] + 2]

\* C14: the load address of a loaded file is its explicit field when that
\* is non-zero (either byte), and the embedded address otherwise.
C14_LoadAddress ==
  obs.kind # "new" =>
    eng.loadaddr = IF ExplicitLoad(obs.file) # 0 THEN ExplicitLoad(obs.file)
                   ELSE EmbeddedLoad(obs.file)

\* A file whose explicit field has a zero high byte and a non-zero low byte
C14_HighByteZero ==
  /\ obs.kind = "load" /\ obs.file[9] = 0 /\ obs.file[10] # 0
  /\ eng.loadaddr = obs.file[10]

\* The program image of a file: the bytes after the embedded load address
\* when the explicit field is zero, the bytes from the data offset on when
\* it is not
ProgramImage(f) ==
  IF ExplicitLoad(f) # 0 THEN SubSeq(f, f[8] + 1, Len(f))
  ELSE SubSeq(f, f[8] + 3, Len(f))

\* Memory holds image img from address la on: every byte that falls below
\* 65536 is in place, and nothing else is set but memory[1], which init
\* stores
Placed(M, img, la) ==
  /\ \A k \in 0..(Len(img) - 1) : la + k < 65536 => Rd(M, la + k) = img[k + 1]
  /\ \A a \in DOMAIN M : a = 1 \/ (a >= la /\ a < la + Len(img))

\* C15: when the init routine is about to start after a load, the program
\* image is in memory from the load address on, bytes beyond the end of
\* memory being dropped.
C15_ImagePlacement ==
  obs.kind = "load" => Placed(eng.memory, ProgramImage(obs.file), eng.loadaddr)

\* The play address field of a file (bytes 0x0C and 0x0D, high byte first),
\* and the address held by the vector at a
PlayField(f) == f[13] * 256 + f[14]

VectorAt(M, a) == Rd(M, a) + 256 * Rd(M, a + 1)

\* C16 (as the code has it): loading leaves the play address at the header
\* field; every init sets it to the field when that is non-zero, and
\* otherwise to the vector read from memory as init's loop left it: the
\* one at 0xFFFE when bits 0-1 of memory[1] are below 2, the one at 0x0314
\* when they are not; every frame starts at the play address.
C16_PlayAddress ==
  /\ obs.kind = "load" => eng.playaddr = PlayField(obs.file)
  /\ (obs.kind # "new" /\ eng.initialized) =>
        eng.playaddr = IF PlayField(obs.file) # 0 THEN PlayField(obs.file)
                       ELSE IF BitAnd(Rd(obs.MI, 1), 3) < 2
                            THEN VectorAt(obs.MI, 65534)
                            ELSE VectorAt(obs.MI, 788)
  /\ (obs.kind = "enter" /\ obs.frame) => eng.PC = eng.playaddr

\* A frame started after a second init of a file with play address field
\* 0, at the address the init routine put into the vector at 0x0314, which
\* differs from the one at 0xFFFE
C16_ResolvedAnew ==
  /\ obs.kind = "enter" /\ obs.frame /\ obs.inits = 2
  /\ PlayField(obs.file) = 0
  /\ eng.PC = VectorAt(obs.MI, 788)
  /\ VectorAt(obs.MI, 788) # VectorAt(obs.MI, 65534)

\* C16 as stated: with play address field 0 the play address is the
\* vector at 0xFFFE.
C16_VectorAtFFFE ==
  (obs.kind # "new" /\ eng.initialized) =>
    eng.playaddr = IF PlayField(obs.file) # 0 THEN PlayField(obs.file)
                   ELSE VectorAt(obs.MI, 65534)

\* Bit s of the 32-bit big-endian speed field at 0x12..0x15 of a file;
\* subtunes beyond 31 have no bit
SpeedBit(f, s) ==
  IF s \in 0..31 THEN (f[22 - (s \div 8)] \div (2 ^ (s % 8))) % 2 ELSE 0

\* init has returned and play() has not been called since
InitReturned == obs.kind = "initpass" /\ obs.phase = "idle"

\* C17: after init(s) the frame period is sampleRate / 50 when bit s of the
\* speed field is clear and the init routine wrote neither 0xDC04 nor
\* 0xDC05, and the timer latch divided by the clock ratio in every other
\* case.
C17_FramePeriod ==
  InitReturned =>
    eng.frame_sampleperiod =
      IF SpeedBit(obs.file, eng.subtune) = 0 /\ ~obs.latch
      THEN DefaultPeriod ELSE TimerPeriod(eng.memory)

-----------------------------------------------------------------------------
(* The playtime accumulator as the double-precision number the code holds. *)
(* _playtime is only ever 0 or a sum of terms 1 / sampleRate, so it is a    *)
(* multiple of the unit 2^-InvShift(sampleRate) of that term's 53-bit       *)
(* significand; it is kept as that integer multiple, written in limbs of    *)
(* LimbBits bits, least significant first, because the integers of the      *)
(* checker have 32 bits.                                                    *)

LimbBits == 12

Base == 2 ^ LimbBits

NLimbs == 8

SigBits == 53

\* The number with the limbs d after carrying; d's entries may be negative
\* or exceed the base
RECURSIVE BigNorm(_, _, _)
BigNorm(d, i, carry) ==
  IF i > NLimbs THEN << >>
  ELSE LET v == d[i] + carry
       IN  <<v % Base>> \o BigNorm(d, i + 1, v \div Base)

Big(n) == BigNorm([i \in 1..NLimbs |-> IF i = 1 THEN n ELSE 0], 1, 0)

BigZero == Big(0)

BigAdd(a, b) == BigNorm([i \in 1..NLimbs |-> a[i] + b[i]], 1, 0)

\* a - b for a >= b
BigSub(a, b) == BigNorm([i \in 1..NLimbs |-> a[i] - b[i]], 1, 0)

\* a * k for 0 <= k < 2^18
BigMulSmall(a, k) == BigNorm([i \in 1..NLimbs |-> a[i] * k], 1, 0)

RECURSIVE BigLessFrom(_, _, _)
BigLessFrom(a, b, i) ==
  IF i = 0 THEN FALSE
  ELSE IF a[i] # b[i] THEN a[i] < b[i]
  ELSE BigLessFrom(a, b, i - 1)

BigLess(a, b) == BigLessFrom(a, b, NLimbs)

BigDist(a, b) == IF BigLess(a, b) THEN BigSub(b, a) ELSE BigSub(a, b)

\* Quotient q and remainder r of the limbs 1..i of a, preceded by the
\* remainder rem of the limbs above, divided by k, 0 < k <= 2^18
RECURSIVE BigDivFrom(_, _, _, _)
BigDivFrom(a, k, i, rem) ==
  IF i = 0 THEN [q |-> << >>, r |-> rem]
  ELSE LET cur  == rem * Base + a[i]
           rest == BigDivFrom(a, k, i - 1, cur % k)
       IN  [q |-> rest.q \o <<cur \div k>>, r |-> rest.r]

BigDivSmall(a, k) == BigDivFrom(a, k, NLimbs, 0)

\* 2^s
Pow2Big(s) ==
  [i \in 1..NLimbs |-> IF i = (s \div LimbBits) + 1 THEN 2 ^ (s % LimbBits) ELSE 0]

\* The number of bits of n >= 0, and of a
RECURSIVE Bits(_)
Bits(n) == IF n = 0 THEN 0 ELSE 1 + Bits(n \div 2)

RECURSIVE BigBitsFrom(_, _)
BigBitsFrom(a, i) ==
  IF i = 0 THEN 0
  ELSE IF a[i] # 0 THEN LimbBits * (i - 1) + Bits(a[i])
  ELSE BigBitsFrom(a, i - 1)

BigBits(a) == BigBitsFrom(a, NLimbs)

\* The quotient of a division, rounded toward zero
Truncated(d, k) == d.q

\* q or q + 1: the quotient of a division by k with remainder r, rounded to
\* nearest, ties to even
Nearest(d, k) ==
  IF 2 * d.r > k \/ (2 * d.r = k /\ d.q[1] % 2 = 1) THEN BigAdd(d.q, Big(1)) ELSE d.q

\* A non-negative number rounded to SigBits significant bits, as every
\* double-precision operation rounds its exact result
DRound(a) ==
  LET j == BigBits(a) - SigBits
  IN  IF j <= 0 THEN a
      ELSE BigMulSmall(Nearest(BigDivSmall(a, 2 ^ j), 2 ^ j), 2 ^ j)

\* The unit of 1 / sr is 2^-InvShift(sr): the quotient 2^InvShift(sr) / sr
\* has SigBits bits when sr is no power of two
InvShift(sr) == SigBits - 1 + Bits(sr)

\* 1 / this._sampleRate
DInv(sr) == Nearest(BigDivSmall(Pow2Big(InvShift(sr)), sr), sr)

\* this._playtime += 1 / this._sampleRate
DAddInv(p, sr) == DRound(BigAdd(p, DInv(sr)))

\* Math.floor(this._playtime)
\* Math.floor(this._playtime), for a playtime below 2^(7 * LimbBits) units
DFloor(p, sr) == (p[6] + Base * p[7]) \div 2 ^ (InvShift(sr) - 5 * LimbBits)

-----------------------------------------------------------------------------
(* Playtime: an engine constructed for the sample rate obs.rate, whose     *)
(* _playtime is obs.playtime; obs.calls counts the play() calls made on    *)
(* the loaded, initialized engine since the last load or init.  The        *)
(* engine's other fields advance by the clock ratio of this model.         *)

MaxTimeCalls == 44100

TimeRates == {44100, sampleRate}

TimeObs0 == [kind |-> "new", rate |-> 0, playtime |-> BigZero, calls |-> 0]

TimeInit ==
  /\ eng = NewEngine
  /\ twin = NoEngine
  /\ ref = NoEngine
  /\ pl = NoPlayer
  /\ obs \in {[TimeObs0 EXCEPT !.rate = r] : r \in TimeRates}
  /\ depth = 0

TimeLoad(f, s) ==
  /\ \E r \in {LoadTrace(eng, f, s)} : eng' = r.e
  /\ obs' = [obs EXCEPT !.kind = "load", !.playtime = BigZero, !.calls = 0]
  /\ UNCHANGED <<twin, ref, pl, depth>>

TimeReinit(s) ==
  /\ \E r \in {InitTrace(eng, s)} : eng' = r.e
  /\ obs' = [obs EXCEPT !.kind = "init",
                        !.playtime = IF eng.loaded THEN BigZero ELSE obs.playtime,
                        !.calls = IF eng.loaded THEN 0 ELSE obs.calls]
  /\ UNCHANGED <<twin, ref, pl, depth>>

TimePlay ==
  /\ obs.calls < MaxTimeCalls
  /\ \E r \in {play(eng, 0)} : eng' = r.e
  /\ obs' = IF ~eng.loaded \/ ~eng.initialized
            THEN [obs EXCEPT !.kind = "play"]
            ELSE [obs EXCEPT !.kind = "play",
                             !.playtime = DAddInv(obs.playtime, obs.rate),
                             !.calls = obs.calls + 1]
  /\ UNCHANGED <<twin, ref, pl, depth>>

TimeNext ==
  \/ TimeLoad(F_MIN, 0)
  \/ TimeReinit(0)
  \/ TimePlay

SpecTime == TimeInit /\ [][TimeNext]_vars

\* getPlaytimeExact() differs from calls / rate by less than 1 / rate
WithinOnePeriod(p, calls, sr) ==
  BigLess(BigDist(BigMulSmall(p, sr), BigMulSmall(Pow2Big(InvShift(sr)), calls)),
          Pow2Big(InvShift(sr)))

\* C18: the playtime is the number of play() calls made on the loaded,
\* initialized engine since the last load or init, divided by the sample
\* rate, to within one sample period; load and init set it to zero; after
\* 44100 calls at 44100 Hz getPlaytime() reports 1.
C18_Playtime ==
  /\ WithinOnePeriod(obs.playtime, obs.calls, obs.rate)
  /\ obs.kind \in {"load", "init"} /\ eng.loaded => obs.playtime = BigZero
  /\ obs.calls > 0 => obs.playtime # BigZero
  /\ (obs.rate = 44100 /\ obs.calls = 44100) => DFloor(obs.playtime, obs.rate) = 1

\* 44100 calls at 44100 Hz: the accumulated sum is not exactly 1 and
\* getPlaytime() gives 1
C18_OneSecond ==
  /\ obs.rate = 44100 /\ obs.calls = 44100
  /\ obs.playtime # Pow2Big(InvShift(44100))
  /\ DFloor(obs.playtime, obs.rate) = 1

-----------------------------------------------------------------------------
(* SpecMix: an engine of either chip model loaded with a two-chip file     *)
(* and played for MaxMixRun samples.                                       *)

\* $1000 init: LDA #$1F; STA $D438; LDA #$01; STA $D437; LDA #$18;
\*   STA $D436; LDA #$F0; STA $D426; LDA #$10; STA $D421; LDA #$21;
\*   STA $D424; RTS
\* $101E play: RTS
\* Second chip at $D420 (header byte 0x7a = 0x42): its first voice
\* (sawtooth, gate on) goes through its low-pass filter, cutoff register
\* $18, volume 15.  The first chip's registers are left at zero.
F_DUAL ==
  MkFile([init |-> 4096, play |-> 4126, songs |-> 1, speed |-> 0, sid2 |-> 66,
          title |-> 50],
         <<169, 31, 141, 56, 212, 169, 1, 141, 55, 212, 169, 24, 141, 54, 212,
           169, 240, 141, 38, 212, 169, 16, 141, 33, 212, 169, 33, 141, 36, 212,
           96>>)

MaxMixRun == 400

MixInit ==
  /\ eng = NewEngine
  /\ twin = NoEngine
  /\ ref = NoEngine
  /\ pl = NoPlayer
  /\ obs = Obs0
  /\ depth = 0

MixModel(m) ==
  /\ ~eng.loaded
  /\ eng.SID_model # m
  /\ eng' = setSIDModel(eng, m)
  /\ obs' = [Obs0 EXCEPT !.kind = "model"]
  /\ UNCHANGED <<twin, ref, pl, depth>>

MixLoad(f, s) ==
  /\ ~eng.loaded
  /\ \E r \in {LoadTrace(eng, f, s)} :
       /\ eng' = r.e
       /\ obs' = ObsInit("load", s, r)
  /\ UNCHANGED <<twin, ref, pl, depth>>

MixPlay(rnd) ==
  /\ eng.loaded
  /\ eng.playtime < MaxMixRun
  /\ \E r \in {play(eng, rnd)} :
       /\ eng' = r.e
       /\ obs' = ObsPlay(obs, eng, r)
  /\ UNCHANGED <<twin, ref, pl, depth>>

MixNext ==
  \/ \E m \in Models : MixModel(m)
  \/ MixLoad(F_DUAL, 0)
  \/ \E rnd \in {0} : MixPlay(rnd)

SpecMix == MixInit /\ [][MixNext]_vars

\* unit - |a| for a finite a
Headroom(a, unit) == FAdd(FromInt(unit), [m |-> -Abs(a.m), x |-> a.x])

\* The magnitude of mix * volume * SIDamount_vol[SIDamount] is at most 1
\* (the volume is in 1/VolScale, the attenuation in tenths)
WithinUnit(ret) ==
  \E v \in {FMul(ret.mix, FromInt(ret.volume * ret.att))} :
    Finite(v) /\ Headroom(v, VolScale * 10).m >= 0

\* C19: with a second chip configured, play() returns the chips' summed
\* output times the attenuation for two chips, and its magnitude is at
\* most 1 whatever the registers hold.
C19_MixWithinUnit ==
  (obs.kind = "play" /\ eng.initialized /\ eng.SID_address[2] # 0) =>
    /\ obs.ret.att = SIDamount_vol[3]
    /\ obs.ret.volume <= VolScale
    /\ WithinUnit(obs.ret)

-----------------------------------------------------------------------------
(* SpecPitch: two engines that differ in the chip model alone (eng a 6581, *)
(* twin an 8580, exchanged by PitchSwap), loaded with the same file and    *)
(* played side by side with the same Math.random() draws.  obs.same tells  *)
(* whether the frequency and control registers of all voices have been     *)
(* the same in both engines at every sample so far.                        *)

\* $1000 init: LDA #$FF; STA $D401; LDA #$F0; STA $D406; LDA #$31;
\*   STA $D404; LDA #$40; STA $D408; LDA #$F0; STA $D40D; LDA #$23;
\*   STA $D40B; RTS
\* $101E play: RTS
\* Voice 1 plays triangle+sawtooth at the top frequency, voice 2 a sawtooth
\* synchronised to voice 1.
F_COMB ==
  MkFile([init |-> 4096, play |-> 4126, songs |-> 1, speed |-> 0, sid2 |-> 0,
          title |-> 67],
         <<169, 255, 141, 1, 212, 169, 240, 141, 6, 212, 169, 49, 141, 4, 212,
           169, 64, 141, 8, 212, 169, 240, 141, 13, 212, 169, 35, 141, 11, 212,
           96>>)

\* $1000 init: LDA #$01; STA $DC05; LDA #$FF; STA $D40F; LDA #$F0;
\*   STA $D414; LDA #$31; STA $D412; LDA #$21; STA $D404; RTS
\* $101A play: LDA $D41B; STA $D401; RTS
\* Voice 3 plays triangle+sawtooth; the play routine, called every 256
\* cycles, copies the read-back of voice 3's waveform into the frequency
\* of voice 1.
F_OSC3 ==
  MkFile([init |-> 4096, play |-> 4122, songs |-> 1, speed |-> 0, sid2 |-> 0,
          title |-> 79],
         <<169, 1, 141, 5, 220,
           169, 255, 141, 15, 212, 169, 240, 141, 20, 212, 169, 49, 141, 18, 212,
           169, 33, 141, 4, 212, 96,
           173, 27, 212, 141, 1, 212, 96>>)

MaxPitchRun == 40

MaxSwaps == 1

PitchFiles == {F_TUNE, F_COMB, F_OSC3}

PitchObs0 == [kind |-> "new", same |-> TRUE, swaps |-> 0]

PitchInit ==
  /\ eng = setSIDModel(NewEngine, 6581)
  /\ twin = setSIDModel(NewEngine, 8580)
  /\ ref = NoEngine
  /\ pl = NoPlayer
  /\ obs = PitchObs0
  /\ depth = 0

\* The frequency and control registers of the three voices of chip num
OscRegs(e, num) ==
  [v \in 0..2 |->
     <<Rd(e.memory, ChipAddr(e, num) + 7 * v),
       Rd(e.memory, ChipAddr(e, num) + 7 * v + 1),
       Rd(e.memory, ChipAddr(e, num) + 7 * v + 4)>>]

SameOscRegs(e1, e2) == \A num \in 0..2 : OscRegs(e1, num) = OscRegs(e2, num)

PitchLoad(f, s) ==
  /\ ~eng.loaded
  /\ \E r \in {LoadEach(<<eng, twin>>, f, s)} :
       /\ eng' = r[1].e
       /\ twin' = r[2].e
       /\ obs' = [obs EXCEPT !.kind = "load",
                             !.same = SameOscRegs(r[1].e, r[2].e)]
  /\ UNCHANGED <<ref, pl, depth>>

PitchPlay(rnd) ==
  /\ eng.loaded
  /\ eng.playtime < MaxPitchRun
  /\ \E r1 \in {play(eng, rnd)}, r2 \in {play(twin, rnd)} :
       /\ eng' = r1.e
       /\ twin' = r2.e
       /\ obs' = [obs EXCEPT !.kind = "play",
                             !.same = obs.same /\ SameOscRegs(r1.e, r2.e)]
  /\ UNCHANGED <<ref, pl, depth>>

\* setSIDModel on both engines, each taking the other's model
PitchSwap ==
  /\ obs.swaps < MaxSwaps
  /\ eng' = setSIDModel(eng, twin.SID_model)
  /\ twin' = setSIDModel(twin, eng.SID_model)
  /\ obs' = [obs EXCEPT !.kind = "model", !.swaps = obs.swaps + 1]
  /\ UNCHANGED <<ref, pl, depth>>

PitchNext ==
  \/ \E f \in PitchFiles : PitchLoad(f, 0)
  \/ \E rnd \in {0} : PitchPlay(rnd)
  \/ PitchSwap

SpecPitch == PitchInit /\ [][PitchNext]_vars

\* C20: while the frequency and control registers have been the same in
\* both engines at every sample, the phase accumulator of every voice is
\* the same in both, whichever chip model each has.
C20_PitchModelIndependent ==
  (eng.SID_model # twin.SID_model /\ obs.same) => eng.pacc = twin.pacc

\* Both engines have played the same registers, their voice 1 accumulators
\* have advanced alike, and the waveform outputs differ with the model
C20_SamePitchOtherWave ==
  /\ obs.kind = "play" /\ obs.same
  /\ eng.SID_model # twin.SID_model
  /\ eng.pacc[0] > 0 /\ eng.pacc = twin.pacc
  /\ eng.prevwfout # twin.prevwfout

-----------------------------------------------------------------------------
(* SpecNoise: the noise shift register of one voice, clocked BlockLen      *)
(* times per step with the test bit clear, from the value the constructor  *)
(* gives it.  obs.lfsr is the register, obs.clocks the number of           *)
(* clockings, obs.back the number of clockings after which the register    *)
(* first held the constructor's value again (0: not yet), and obs.inv      *)
(* tells whether every clocking so far could be undone.                    *)

\* new Float64Array(9).fill(0x7ffff8)
LFSRReset == 8388600

NoisePeriod == 2 ^ 23 - 1

BlockLen == 32

\* The register value that one clocking with the test bit clear turns
\* into tmp: bit 0 of tmp is the old bit 22 xor the old bit 17, which is
\* now bit 18
PrevLFSR(tmp) ==
  (tmp \div 2) + 4194304 * (((tmp % 2) + ((tmp \div 262144) % 2)) % 2)

Clocked(s) ==
  LET n == NextLFSR(s.lfsr, 0)
  IN  [kind |-> "clock", lfsr |-> n, clocks |-> s.clocks + 1,
       back |-> IF s.back = 0 /\ n = LFSRReset THEN s.clocks + 1 ELSE s.back,
       inv |-> s.inv /\ PrevLFSR(n) = s.lfsr]

RECURSIVE ClockN(_, _)
ClockN(s, k) ==
  IF k = 0 THEN s
  ELSE LET c == Clocked(s)
       IN  IF c.lfsr >= 0 THEN ClockN(c, k - 1) ELSE c

NoiseInit ==
  /\ eng = NoEngine
  /\ twin = NoEngine
  /\ ref = NoEngine
  /\ pl = NoPlayer
  /\ obs = [kind |-> "new", lfsr |-> NewEngine.nLFSR[0], clocks |-> 0, back |-> 0,
            inv |-> TRUE]
  /\ depth = 0

NoiseBlock ==
  /\ obs.clocks < NoisePeriod
  /\ obs' = ClockN(obs, BlockLen)
  /\ UNCHANGED <<eng, twin, ref, pl, depth>>

NoiseNext == NoiseBlock

SpecNoise == NoiseInit /\ [][NoiseNext]_vars

\* C21: clocked with the test bit clear, the shift register holds its
\* reset value again after 2^23 - 1 clockings and not before, and every
\* clocking can be undone, so no other value recurs earlier either.
C21_MaximalPeriod ==
  /\ obs.inv
  /\ obs.back \in {0, NoisePeriod}
  /\ obs.clocks >= NoisePeriod => obs.back = NoisePeriod

\* The register is back at its reset value after 2^23 - 1 clockings
C21_FullCycle ==
  /\ obs.back = NoisePeriod
  /\ LFSRReset # 0
  /\ NewEngine.nLFSR[0] = LFSRReset

-----------------------------------------------------------------------------
(* The envelope generator of one voice of the primary chip, driven by the  *)
(* register writes of a tune: SpecEnv.  A tune's play routine writes the   *)
(* voice's control, attack/decay and sustain/release registers between two *)
(* samples; play applies the gate-off shortcut when the control register   *)
(* is written with the gate bit clear, and _SID evaluates the envelope     *)
(* once per sample.                                                        *)

\* The longest run of samples after a register write
MaxEnvRun == 1500

\* The number of times the tune rewrites the voice's registers
MaxEnvWrites == 2

\* The numbers of samples after which the tune may write again
EnvWriteGaps == {1, 2, 130}

\* The attack/decay and sustain/release bytes the tune writes
EnvAD == {0, 16}
EnvSR == {32, 33}

\* The voice after initSID: silent, all counters zero
EnvVoice0 == [Ast |-> HZ, rcnt |-> 0, envcnt |-> 0, expcnt |-> 0, pSR |-> 0]

EnvObs0 ==
  [kind |-> "new", v |-> EnvVoice0, ctrl |-> 0, AD |-> 0, SR |-> 0,
   writes |-> 0, since |-> 0, edge |-> "none", L0 |-> 0, inside |-> TRUE]

EnvInit ==
  /\ eng = NoEngine /\ twin = NoEngine /\ ref = NoEngine /\ pl = NoPlayer
  /\ obs = EnvObs0
  /\ depth = 0

\* The play routine writes the three registers; g = 0 writes the control
\* register with the gate bit clear, g = 1 with the gate bit set, and g = 2
\* writes it clear and then set within the same call (a re-trigger).
EnvWrite(g, ad, sr) ==
  /\ obs.kind # "write"
  /\ obs.kind = "new" \/ obs.since \in EnvWriteGaps
  /\ obs.writes < MaxEnvWrites
  /\ LET ast  == IF g = 1 THEN obs.v.Ast ELSE GateOffAst(obs.v.Ast)
         gate == IF g = 0 THEN 0 ELSE GAT
         was  == BitAnd(obs.v.Ast, GAT)
         rate == BitAnd(sr, 15)
     IN  obs' = [obs EXCEPT !.kind = "write", !.v.Ast = ast, !.ctrl = gate,
                            !.AD = ad, !.SR = sr,
                            !.writes = obs.writes + 1, !.since = 0,
                            !.edge = IF gate # 0 /\ BitAnd(ast, GAT) = 0 THEN "rose"
                                     ELSE IF gate = 0 /\ was # 0 THEN "fell"
                                     ELSE "none",
                            !.L0 = obs.v.envcnt,
                            !.inside = obs.v.rcnt < Aprd[rate + 1]]
  /\ UNCHANGED <<eng, twin, ref, pl, depth>>

\* _SID evaluates the voice for one sample
EnvSample ==
  /\ obs.kind # "new"
  /\ obs.since < MaxEnvRun
  /\ obs' = [obs EXCEPT !.kind = "sample",
                        !.v = Envelope(obs.v, obs.ctrl, obs.AD, obs.SR),
                        !.since = obs.since + 1]
  /\ UNCHANGED <<eng, twin, ref, pl, depth>>

EnvNext ==
  \/ \E g \in 0 .. 2, ad \in EnvAD, sr \in EnvSR : EnvWrite(g, ad, sr)
  \/ EnvSample

SpecEnv == EnvInit /\ [][EnvNext]_vars

\* The samples that period[r] * steps cycles take, the steps being those of
\* size step[r] from level L0 to 255 (one at least), rounded up.
AttackBound(L0, r) ==
  LET steps == (255 - L0 + Astp[r + 1] - 1) \div Astp[r + 1]
      n     == IF steps < 1 THEN 1 ELSE steps
  IN  (Aprd[r + 1] * n + clk_ratio - 1) \div clk_ratio

\* C22: when the gate bit is switched from 0 to 1 and held with attack rate
\* r, the envelope counter is 255 and the voice has left the attack phase
\* once period[r] times the number of steps from the starting level have
\* elapsed, plus one sample of rounding.
C22_BoundedAttack ==
  (obs.kind = "sample" /\ obs.edge = "rose"
     /\ obs.since >= AttackBound(obs.L0, obs.AD \div 16) + 1)
  => (obs.v.envcnt = 255 /\ BitAnd(obs.v.Ast, ATK) = 0)

\* The envelope steps that a fall through the levels a .. b in steps of one
\* takes: the repeat counts of the levels passed, a level without table
\* entry counting once.
RECURSIVE FiresBetween(_, _)
FiresBetween(a, b) ==
  IF a > b THEN 0
  ELSE IF a = b THEN (IF Aexp(a) = NaN THEN 1 ELSE Aexp(a))
  ELSE LET m == (a + b) \div 2
       IN  FiresBetween(a, m) + FiresBetween(m + 1, b)

\* The steps of a fall from level l to 0
ReleaseFires(l) == FiresBetween(1, l)

\* The samples that a release from level L0 at rate r takes at most
ReleaseBound(L0, r) ==
  (Aprd[r + 1] * ReleaseFires(L0) + clk_ratio - 1) \div clk_ratio

\* The voice is silent: envelope counter 0 and the hold-zero flag set
Silent(v) == v.envcnt = 0 /\ BitAnd(v.Ast, HZ) # 0

\* C23: once the gate bit has been cleared at a level above 0 (the rate
\* counter being below the release period at that moment) and has stayed
\* clear with the release rate unchanged for the samples that the release
\* from that level takes, plus one, the envelope counter is 0 and the
\* silent flag is set.
C23_ReleaseReachesSilence ==
  (obs.kind = "sample" /\ obs.edge = "fell" /\ obs.inside /\ obs.L0 > 0
     /\ obs.since >= ReleaseBound(obs.L0, BitAnd(obs.SR, 15)) + 1)
  => Silent(obs.v)

\* The phase of a voice with flags ast
Attacking(ast) == BitAnd(ast, ATK) # 0

\* C24: the envelope counter stays in 0 .. 255; over one sample it does not
\* decrease while the voice is in the attack phase and does not increase
\* while it is in the decay-sustain or release phase (attack flag clear
\* before and after the sample).
C24_EnvelopeDirection ==
  [][obs'.kind = "sample" =>
       /\ obs'.v.envcnt \in 0 .. 255
       /\ Attacking(obs'.v.Ast) => obs'.v.envcnt >= obs.v.envcnt
       /\ (~Attacking(obs.v.Ast) /\ ~Attacking(obs'.v.Ast))
            => obs'.v.envcnt <= obs.v.envcnt]_vars

\* The voice is in the decay-sustain phase with its gate held
DecaySustain(ast) ==
  BitAnd(ast, GAT) # 0 /\ BitAnd(ast, DECSUS) # 0 /\ ~Attacking(ast)

\* (SR >> 4) + (SR & 0xf0): 17 times the sustain nibble
SustainLevel(SR) == (SR \div 16) + BitAnd(SR, 240)

\* C29: over a sample evaluated with the gate held and the voice in the
\* decay-sustain phase before and after it, an envelope counter at or above
\* the sustain level L = 17 * (sustain nibble) does not drop below L.
C29_SustainFloor ==
  [][(obs'.kind = "sample" /\ obs.ctrl = GAT
        /\ DecaySustain(obs.v.Ast) /\ DecaySustain(obs'.v.Ast)
        /\ obs.v.envcnt >= SustainLevel(obs.SR))
     => obs'.v.envcnt >= SustainLevel(obs.SR)]_vars

\* A voice in the decay-sustain phase at the fastest decay rate, above a
\* sustain level that is not 0, whose rate counter has come round at least
\* once since the attack ended.
C29_DecayAtFastestRate ==
  /\ obs.kind = "sample" /\ obs.ctrl = GAT
  /\ DecaySustain(obs.v.Ast)
  /\ BitAnd(obs.AD, 15) = 0 /\ Astp[1] > 1
  /\ SustainLevel(obs.SR) = 34
  /\ obs.v.envcnt > SustainLevel(obs.SR)
  /\ obs.v.expcnt > 0

\* The flags of a voice agree with one another and with the gate bit of the
\* control register
FlagsConsistent(ast, ctrl) ==
  /\ BitAnd(ast, GAT) = BitAnd(ctrl, GAT)
  /\ BitAnd(ast, ATK) # 0 => BitAnd(ast, DECSUS) # 0
  /\ BitAnd(ast, DECSUS) # 0 => BitAnd(ast, GAT) # 0

\* C30: after a voice has been evaluated for a sample, and after a write of
\* its control register with the gate bit clear has been handled, the stored
\* gate flag equals the gate bit of the control register, the attack flag
\* is set only with the decay-sustain flag and the decay-sustain flag only
\* with the gate flag.
C30_FlagsConsistent ==
  (obs.kind = "sample" \/ (obs.kind = "write" /\ obs.ctrl = 0))
  => FlagsConsistent(obs.v.Ast, obs.ctrl)

\* The gate-off handling has cleared the flags of a voice that was in its
\* attack phase.
C30_GateOffDuringAttack ==
  /\ obs.kind = "write" /\ obs.ctrl = 0 /\ obs.edge = "fell"
  /\ obs.L0 \in 1 .. 254
  /\ obs.v.Ast = 0

-----------------------------------------------------------------------------
(* The player component, SidPlayerComponent: SpecComp.  pl is its          *)
(* SIDPlayer; obs holds the component's tracked state, whether its         *)
(* interval timer is set, the playtime it displays, the engine's playtime  *)
(* counted in audio callbacks, and whether a fetch is outstanding.  The    *)
(* control actions are those whose buttons the template shows in the       *)
(* component's state.  The engine is abstracted to its playtime: a         *)
(* callback of a playing player adds one buffer to it, init and            *)
(* resetSubtune set it to 0.                                               *)

\* siteSettings.sid_preview_max_seconds
MaxSeconds == 2

\* Audio callbacks per second of playtime
CallsPerSecond == 2

\* The audio callbacks after which the engine's playtime is left alone
MaxCompCalls == CallsPerSecond * (MaxSeconds + 2)

\* SIDEngine.getPlaytime(): Math.floor(this._playtime), t in callbacks
getPlaytime(t) == t \div CallsPerSecond

\* _startTimer() without its interval: the timer is left as it was.
startTimerUnset(c) == c

\* _startTimer(); _stopTimer()
startTimer(c) == [c EXCEPT !.timer = TRUE]

\* _stopTimer() without clearInterval: the interval keeps running.
stopTimerKept(c) == c

stopTimer(c) == [c EXCEPT !.timer = FALSE]

Comp0 ==
  [kind |-> "new", state |-> "idle", timer |-> FALSE, playtime |-> 0,
   time |-> 0, pending |-> FALSE, again |-> FALSE, gone |-> FALSE]

\* The component's SIDPlayer before _ensurePlayer and load
CompPlayer0 == [ctx |-> FALSE, loaded |-> FALSE, playing |-> FALSE]

CompInit ==
  /\ eng = NoEngine /\ twin = NoEngine /\ ref = NoEngine
  /\ pl = CompPlayer0
  /\ obs = Comp0
  /\ depth = 0

\* A Play button that is not shown once the limit has ended the playback.
showPlayButtonNotEnded == ~obs.gone /\ obs.state \in {"ready", "paused"}

\* The states in which the template shows the Play button, the Stop and
\* Restart buttons and the subtune selector
showPlayButton == ~obs.gone /\ obs.state \in {"ready", "paused", "ended"}

showStopButton == ~obs.gone /\ obs.state \in {"playing", "paused"}

ShowControls == ~obs.gone /\ obs.state \notin {"idle", "loading", "error"}

\* loadAndPlay() up to the await: the player's load() creates the audio
\* context, stops the player and starts the fetch
CompLoadAndPlay ==
  /\ ~obs.gone /\ obs.state = "idle"
  /\ pl' = [Paused(pl) EXCEPT !.ctx = TRUE]
  /\ obs' = [obs EXCEPT !.kind = "load", !.state = "loading", !.playtime = 0,
                        !.time = 0, !.pending = TRUE]
  /\ UNCHANGED <<eng, twin, ref, depth>>

\* The fetch succeeded: the track is loaded, onLoad sets state "ready",
\* then loadAndPlay goes on with player.play(), state "playing", the timer
CompLoaded ==
  /\ obs.pending /\ ~obs.gone
  /\ pl' = Playing([pl EXCEPT !.loaded = TRUE])
  /\ obs' = startTimer([obs EXCEPT !.kind = "loaded", !.state = "playing",
                                   !.time = 0, !.pending = FALSE])
  /\ UNCHANGED <<eng, twin, ref, depth>>

\* The fetch failed (before or after the component was destroyed):
\* catch (e) { this.state = "error" }
CompLoadFailed ==
  /\ obs.pending
  /\ obs' = [obs EXCEPT !.kind = "failed", !.state = "error", !.pending = FALSE]
  /\ UNCHANGED <<eng, twin, ref, pl, depth>>

\* The fetch succeeded after willDestroy: destroy() has set the player's
\* _engine to null, so this._engine.loadSIDData(data, subtune) in load's
\* callback throws a TypeError before _loaded is set and before onLoad is
\* called; the promise is rejected and loadAndPlay's catch sets state
\* "error".
CompLoadedDestroyed ==
  /\ obs.pending /\ obs.gone
  /\ obs' = [obs EXCEPT !.kind = "typeerror", !.state = "error", !.pending = FALSE]
  /\ UNCHANGED <<eng, twin, ref, pl, depth>>

\* play(): this._player.play(); state = "playing"; _startTimer()
CompPlay ==
  /\ showPlayButton
  /\ pl' = Playing(pl)
  /\ obs' = startTimer([obs EXCEPT !.kind = "play", !.state = "playing",
                                   !.again = obs.again \/ obs.state = "ended"])
  /\ UNCHANGED <<eng, twin, ref, depth>>

\* pause()
CompPause ==
  /\ ~obs.gone /\ obs.state = "playing"
  /\ pl' = Paused(pl)
  /\ obs' = stopTimer([obs EXCEPT !.kind = "pause", !.state = "paused"])
  /\ UNCHANGED <<eng, twin, ref, depth>>

\* stop(): the player pauses and resets the subtune
CompStop ==
  /\ showStopButton
  /\ pl' = Paused(pl)
  /\ obs' = stopTimer([obs EXCEPT !.kind = "stop", !.state = "ready",
                                  !.playtime = 0, !.time = 0])
  /\ UNCHANGED <<eng, twin, ref, depth>>

\* restart(): the player pauses, resets the subtune and plays
CompRestart ==
  /\ showStopButton
  /\ pl' = Playing(Paused(pl))
  /\ obs' = startTimer([obs EXCEPT !.kind = "restart", !.state = "playing",
                                   !.playtime = 0, !.time = 0])
  /\ UNCHANGED <<eng, twin, ref, depth>>

\* changeSubtune(event): the player's setSubtune pauses, initialises the
\* subtune and plays again if it was playing
CompChangeSubtune ==
  /\ ShowControls
  /\ pl' = IF obs.state = "playing" THEN Playing(Paused(pl))
           ELSE IF pl.playing THEN Playing(Paused(pl)) ELSE Paused(pl)
  /\ obs' = IF obs.state = "playing"
            THEN startTimer([obs EXCEPT !.kind = "subtune", !.playtime = 0,
                                        !.time = 0])
            ELSE [obs EXCEPT !.kind = "subtune", !.state = "ready",
                             !.playtime = 0, !.time = 0]
  /\ UNCHANGED <<eng, twin, ref, depth>>

\* willDestroy(): the timer is stopped and the player destroyed
willDestroy ==
  /\ ~obs.gone
  /\ pl' = [Paused(pl) EXCEPT !.loaded = FALSE, !.ctx = FALSE]
  /\ obs' = stopTimer([obs EXCEPT !.kind = "destroy", !.gone = TRUE, !.time = 0])
  /\ UNCHANGED <<eng, twin, ref, depth>>

\* The interval's callback, every 250 ms while the timer is set
Tick ==
  /\ obs.timer
  /\ LET t == getPlaytime(obs.time)
     IN  IF t >= MaxSeconds
         THEN /\ pl' = Paused(pl)
              /\ obs' = stopTimer([obs EXCEPT !.kind = "tick", !.playtime = t,
                                              !.state = "ended"])
         ELSE /\ pl' = pl
              /\ obs' = [obs EXCEPT !.kind = "tick", !.playtime = t]
  /\ UNCHANGED <<eng, twin, ref, depth>>

\* onaudioprocess of a playing player: one buffer of samples
CompAudio ==
  /\ pl.playing
  /\ obs.time < MaxCompCalls
  /\ obs' = [obs EXCEPT !.kind = "audio", !.time = obs.time + 1]
  /\ UNCHANGED <<eng, twin, ref, pl, depth>>

CompNext ==
  \/ CompLoadAndPlay
  \/ CompLoaded
  \/ CompLoadFailed
  \/ CompLoadedDestroyed
  \/ CompPlay
  \/ CompPause
  \/ CompStop
  \/ CompRestart
  \/ CompChangeSubtune
  \/ willDestroy
  \/ Tick
  \/ CompAudio

\* The browser runs the interval's callback as long as the timer is set
SpecComp == CompInit /\ [][CompNext]_vars /\ WF_vars(Tick)

\* The limit has been reached: the engine's playtime in seconds is at or
\* above the maximum
LimitReached == getPlaytime(obs.time) >= MaxSeconds

\* C25: a timer tick that finds the component in state 'playing' with the
\* playtime at or above the maximum pauses the player, stops the timer and
\* sets state 'ended'; a playing player always has the timer set, no tick
\* leaves a player playing at or beyond the limit, and audio playing at or
\* beyond the limit is paused (or its playtime reset by Stop, Restart or a
\* subtune change) in the end.
C25_AutoStop ==
  /\ [][(obs.timer /\ obs.state = "playing" /\ LimitReached /\ obs'.kind = "tick")
        => (~pl'.playing /\ ~obs'.timer /\ obs'.state = "ended")]_vars
  /\ [](pl.playing => (obs.timer /\ obs.state = "playing"))
  /\ []((obs.kind = "tick" /\ LimitReached) => ~pl.playing)
  /\ ((pl.playing /\ LimitReached) ~> (~pl.playing \/ ~LimitReached))

\* The limit was reached after Play had been pressed in state 'ended', and
\* the tick has stopped the player again.
C25_EndedAgain ==
  /\ obs.kind = "tick" /\ obs.state = "ended" /\ obs.again
  /\ LimitReached /\ ~pl.playing /\ ~obs.timer

-----------------------------------------------------------------------------
(* The decoration of a cooked post element, sid-preview.gjs: SpecDecorate. *)
(* obs.links are the a[href] elements of the post element in document      *)
(* order: the href (whether new URL() accepts it, the characters of its    *)
(* path, and whether a query or fragment follows), whether the parent is a *)
(* P element, the data-sid-player-attached mark, and the container whose   *)
(* rendering made the link (0 for a link of the post itself).              *)
(* obs.containers are the div.sid-player-container elements in order of    *)
(* creation: the link each was made for, where it was inserted, and        *)
(* whether its player component has been rendered into it.                 *)

\* The decoration passes made with a helper
MaxPasses == 3

\* The links of the post itself, at most
MaxLinks == 2

\* String.prototype.toLowerCase on one character
Lower(ch) ==
  IF ch = "S" THEN "s" ELSE IF ch = "I" THEN "i" ELSE IF ch = "D" THEN "d" ELSE ch

\* path.toLowerCase().endsWith(".sid")
EndsWithSid(path) ==
  LET n == Len(path)
  IN  /\ n >= 4
      /\ path[n - 3] = "."
      /\ Lower(path[n - 2]) = "s"
      /\ Lower(path[n - 1]) = "i"
      /\ Lower(path[n]) = "d"

\* isSidUrl(href): new URL(href, origin).pathname, lower-cased, ends in
\* ".sid"; false if the URL constructor throws
isSidUrl(href) == href.ok /\ EndsWithSid(href.path)

\* The hrefs of the links of a post: /t.sid, /T.SID, /t.Sid?x (a query
\* after the path), /t.sidx, /sid, /t.mp3#.sid is written as the path
\* /t.mp3 with a tail, and a href that new URL() rejects
Hrefs ==
  { [ok |-> TRUE, path |-> <<"t", ".", "s", "i", "d">>, tail |-> FALSE],
    [ok |-> TRUE, path |-> <<"T", ".", "S", "I", "D">>, tail |-> FALSE],
    [ok |-> TRUE, path |-> <<"t", ".", "S", "i", "d">>, tail |-> TRUE],
    [ok |-> TRUE, path |-> <<"t", ".", "s", "i", "d", "x">>, tail |-> FALSE],
    [ok |-> TRUE, path |-> <<"s", "i", "d">>, tail |-> FALSE],
    [ok |-> TRUE, path |-> <<"t", ".", "m", "p", "3">>, tail |-> TRUE],
    [ok |-> FALSE, path |-> <<"t", ".", "s", "i", "d">>, tail |-> FALSE] }

\* A link of the post as cooked: not yet marked
PostLinks ==
  { [href |-> h, inP |-> b, attached |-> FALSE, by |-> 0] :
      h \in Hrefs, b \in BOOLEAN }

DecorateInit ==
  /\ eng = NoEngine /\ twin = NoEngine /\ ref = NoEngine /\ pl = NoPlayer
  /\ \E n \in 1 .. MaxLinks : \E ls \in [1 .. n -> PostLinks] :
       obs = [kind |-> "new", links |-> ls, containers |-> << >>, passes |-> 0]
  /\ depth = 0

\* allLinks.forEach(...) from link i on: d holds the links and containers
RECURSIVE DecorateFrom(_, _)
DecorateFrom(d, i) ==
  IF i > Len(d.links) THEN d
  ELSE LET link == d.links[i]
       IN  IF ~isSidUrl(link.href) \/ link.attached THEN DecorateFrom(d, i + 1)
           ELSE DecorateFrom(
                  [links |-> [d.links EXCEPT ![i].attached = TRUE],
                   containers |->
                     Append(d.containers,
                            [for |-> i,
                             where |-> IF link.inP THEN "afterParagraph"
                                       ELSE "afterLink",
                             rendered |-> FALSE])],
                  i + 1)

\* The callback given to decorateCookedElement, called on the post element
Decorate(helper) ==
  /\ obs.passes < MaxPasses
  /\ IF ~helper THEN obs' = [obs EXCEPT !.kind = "nohelper"]
     ELSE \E d \in {DecorateFrom([links |-> obs.links,
                                  containers |-> obs.containers], 1)} :
            obs' = [obs EXCEPT !.kind = "pass", !.links = d.links,
                               !.containers = d.containers,
                               !.passes = obs.passes + 1]
  /\ UNCHANGED <<eng, twin, ref, pl, depth>>

\* Glimmer renders the player component into container c: its template
\* holds the download link <a href={{@url}} class="sid-player__download">
\* inside the header div
Render(c) ==
  /\ c \in DOMAIN obs.containers
  /\ ~obs.containers[c].rendered
  /\ obs' = [obs EXCEPT !.kind = "render",
                        !.containers[c].rendered = TRUE,
                        !.links = Append(obs.links,
                                         [href |-> obs.links[obs.containers[c].for].href,
                                          inP |-> FALSE, attached |-> FALSE,
                                          by |-> c])]
  /\ UNCHANGED <<eng, twin, ref, pl, depth>>

DecorateNext ==
  \/ \E helper \in BOOLEAN : Decorate(helper)
  \/ \E c \in 1 .. MaxLinks * MaxPasses : Render(c)

SpecDecorate == DecorateInit /\ [][DecorateNext]_vars

\* The containers made for link i
ContainersOf(i) == {c \in DOMAIN obs.containers : obs.containers[c].for = i}

\* Every link among those numbered in scope whose path ends in .sid has
\* exactly one container, and no other link of the element has one
DecoratedIn(scope) ==
  \A i \in DOMAIN obs.links :
    Cardinality(ContainersOf(i)) =
      IF i \in scope /\ isSidUrl(obs.links[i].href) THEN 1 ELSE 0

\* The links of the post itself, and those of the whole element
OwnLinks == {i \in DOMAIN obs.links : obs.links[i].by = 0}

AllLinks == DOMAIN obs.links

\* C26: once a decoration pass has been made, every link whose URL path
\* ends in .sid has exactly one player container, no other link has one and
\* the links of the post are still there; the links meant are those of the
\* post itself or all those of the element, whichever reading holds.
C26_DecoratedOnce ==
  obs.passes >= 1 =>
    /\ DecoratedIn(OwnLinks) \/ DecoratedIn(AllLinks)
    /\ OwnLinks # {}

-----------------------------------------------------------------------------
(* SpecALU: the add-with-carry and subtract-with-carry cases of _CPU       *)
(* applied to an accumulator, an operand byte and a status byte.           *)

\* Accumulator and operand bytes: the ends of the range, of the signed
\* range and of each decimal digit
AluBytes ==
  {0, 1, 2, 9, 10, 15, 16, 25, 69, 80, 85, 121, 127, 128, 129, 144, 153, 154,
   160, 170, 240, 249, 254, 255}

\* Status bytes: carry and decimal in each combination, alone and with
\* the interrupt-disable and break flags
AluStatus == {0, 1, 8, 9, 20, 21, 28, 29, 4, 16, 195, 203}

AluObs0(A, m, ST) ==
  [kind |-> "new", A |-> A, m |-> m, ST |-> ST, A2 |-> A, ST2 |-> ST]

AluInit ==
  /\ eng = NoEngine /\ twin = NoEngine /\ ref = NoEngine /\ pl = NoPlayer
  /\ \E A \in AluBytes, m \in AluBytes, ST \in AluStatus : obs = AluObs0(A, m, ST)
  /\ depth = 0

\* case 0x60 on the accumulator and status drawn
AluADC ==
  /\ obs.kind = "new"
  /\ \E c \in {ADC([A |-> obs.A, ST |-> obs.ST], obs.m)} :
       obs' = [obs EXCEPT !.kind = "adc", !.A2 = c.A, !.ST2 = c.ST]
  /\ UNCHANGED <<eng, twin, ref, pl, depth>>

\* case 0xe0
AluSBC ==
  /\ obs.kind = "new"
  /\ \E c \in {SBC([A |-> obs.A, ST |-> obs.ST], obs.m)} :
       obs' = [obs EXCEPT !.kind = "sbc", !.A2 = c.A, !.ST2 = c.ST]
  /\ UNCHANGED <<eng, twin, ref, pl, depth>>

AluNext == AluADC \/ AluSBC

SpecALU == AluInit /\ [][AluNext]_vars

\* Bit k of a byte
Flag(ST, k) == (ST \div 2 ^ k) % 2

\* A byte as a signed number, and as a two-digit decimal number
Signed(b) == IF b >= 128 THEN b - 256 ELSE b

IsBCD(b) == b % 16 <= 9 /\ b \div 16 <= 9

FromBCD(b) == 10 * (b \div 16) + (b % 16)

ToBCD(n) == 16 * (n \div 10) + (n % 10)

\* The 6502's binary add and subtract with carry: the sum of accumulator,
\* operand and carry (for SBC the operand's complement), its low byte, the
\* carry out, and the overflow of the signed sum
RefBinary(A, m, ST, sub) ==
  LET op  == IF sub THEN 255 - m ELSE m
      sum == A + op + Flag(ST, 0)
      sgn == Signed(A) + Signed(op) + Flag(ST, 0)
      res == sum % 256
  IN  [A |-> res, C |-> sum \div 256, Z |-> IF res = 0 THEN 1 ELSE 0,
       N |-> res \div 128, V |-> IF sgn > 127 \/ sgn < -128 THEN 1 ELSE 0]

\* The 6502's decimal add and subtract with carry on two-digit operands:
\* the accumulator and the carry
RefDecimal(A, m, ST, sub) ==
  LET n == IF sub THEN FromBCD(A) - FromBCD(m) - (1 - Flag(ST, 0))
           ELSE FromBCD(A) + FromBCD(m) + Flag(ST, 0)
  IN  IF sub THEN [A |-> ToBCD((n + 100) % 100), C |-> IF n >= 0 THEN 1 ELSE 0]
      ELSE [A |-> ToBCD(n % 100), C |-> IF n >= 100 THEN 1 ELSE 0]

\* C27: ADC and SBC give the accumulator and the carry, zero, negative and
\* overflow flags of the 6502's binary operation when the decimal flag is
\* clear, the accumulator and carry of its decimal operation when the flag
\* is set (operands being decimal numbers), and leave the
\* interrupt-disable, decimal and break flags as they were.
C27_MatchesReference ==
  obs.kind \in {"adc", "sbc"} =>
    LET sub == obs.kind = "sbc"
        D   == Flag(obs.ST, 3) = 1
        b   == RefBinary(obs.A, obs.m, obs.ST, sub)
        d   == RefDecimal(obs.A, obs.m, obs.ST, sub)
    IN  /\ ~D => /\ obs.A2 = b.A
                 /\ Flag(obs.ST2, 0) = b.C /\ Flag(obs.ST2, 1) = b.Z
                 /\ Flag(obs.ST2, 7) = b.N /\ Flag(obs.ST2, 6) = b.V
        /\ (D /\ IsBCD(obs.A) /\ IsBCD(obs.m))
             => (obs.A2 = d.A /\ Flag(obs.ST2, 0) = d.C)
        /\ \A k \in {2, 3, 4} : Flag(obs.ST2, k) = Flag(obs.ST, k)

-----------------------------------------------------------------------------
(* SpecStep: one _CPU() call for each of the 256 opcodes, from register    *)
(* values at the ends of their ranges, with the opcode at the program      *)
(* counter, operand bytes behind it, and the zero page, the stack page and *)
(* the interrupt vector filled with one byte value.                        *)

StepPCs == {4096, 65534, 65535}

StepSPs == {0, 254, 255}

\* A, X, Y
StepRegs == {<<0, 0, 0>>, <<255, 255, 255>>, <<128, 1, 127>>}

StepStatus == {0, 255}

\* The two bytes behind the opcode
StepOperands == {<<0, 0>>, <<255, 255>>, <<128, 1>>}

StepFills == {0, 255}

\* Memory with byte v at 0 .. 0x1ff and at the vector 0xfffe, 0xffff, the
\* opcode at PC and the operand bytes behind it (as far as memory goes)
StepMemory(v, PC, IR, ops) ==
  LET base == [a \in (IF v = 0 THEN {} ELSE (0 .. 511) \cup {65534, 65535}) |-> v]
  IN  Wr(Wr(Wr(base, PC + 2, ops[2]), PC + 1, ops[1]), PC, IR)

StepInit ==
  /\ eng = NoEngine /\ twin = NoEngine /\ ref = NoEngine /\ pl = NoPlayer
  /\ \E IR \in 0 .. 255, PC \in StepPCs, SP \in StepSPs, r \in StepRegs,
        ST \in StepStatus, ops \in StepOperands, v \in StepFills :
       obs = [kind |-> "new", IR |-> IR,
              c0 |-> [PC |-> PC, A |-> r[1], X |-> r[2], Y |-> r[3], SP |-> SP,
                      ST |-> ST, M |-> StepMemory(v, PC, IR, ops),
                      cyc |-> 0, sta |-> 0, addr |-> 0, rc |-> 0],
              c1 |-> [PC |-> PC, A |-> r[1], X |-> r[2], Y |-> r[3], SP |-> SP,
                      ST |-> ST]]
  /\ depth = 0

\* this._CPU() on the context drawn: the registers written back
StepOnce ==
  /\ obs.kind = "new"
  /\ \E c \in {Step(obs.c0)} :
       obs' = [obs EXCEPT !.kind = IF c.rc = 0 THEN "step" ELSE "return",
                          !.c1 = c]
  /\ UNCHANGED <<eng, twin, ref, pl, depth>>

StepNext == StepOnce

SpecStep == StepInit /\ [][StepNext]_vars

\* The registers of a context are integers within their widths
WellFormed(c) ==
  /\ c.A \in 0 .. 255 /\ c.X \in 0 .. 255 /\ c.Y \in 0 .. 255
  /\ c.SP \in 0 .. 255 /\ c.ST \in 0 .. 255
  /\ c.PC \in 0 .. 65535

\* The addresses whose bytes differ between two memories
Changed(M1, M2) ==
  {a \in (DOMAIN M1) \cup (DOMAIN M2) : Rd(M1, a) # Rd(M2, a)}

\* The opcodes that only push (PHP, PHA, BRK, JSR)
Pushes == {8, 72, 0, 32}

\* C28: after a _CPU() call from a well-formed state, whatever the opcode
\* and the memory, A, X, Y, SP and ST are in 0 .. 255 and PC in
\* 0 .. 65535; an instruction that pushes writes to the stack page only,
\* and PLA and PLP load the byte at 0x100 + SP.
C28_WellFormedStep ==
  obs.kind \in {"step", "return"} =>
    /\ WellFormed(obs.c1)
    /\ obs.IR \in Pushes => Changed(obs.c0.M, obs.c1.M) \subseteq 256 .. 511
    /\ obs.IR = 104 => obs.c1.A = Rd(obs.c1.M, 256 + obs.c1.SP)
    /\ obs.IR = 40 => obs.c1.ST = Rd(obs.c1.M, 256 + obs.c1.SP)

-----------------------------------------------------------------------------
(* SpecFrame: one engine loaded with a tune whose play routine writes the  *)
(* CIA timer latch registers, then played for MaxFrameRun samples.         *)

MaxFrameRun == 12

\* The bytes the play routine stores to 0xDC04 and 0xDC05
LatchLows == {0, 1, 64}

LatchHighs == {0, 1}

\* $1000 init: RTS;  $1001 play: LDA #lo; STA $DC04; LDA #hi; STA $DC05;
\* RTS.  bits = 1: subtune 0 is timed by the CIA timer, bits = 0: by the
\* vertical blank.
LatchFile(bits, lo, hi) ==
  TimerFile(bits, 4097, <<96, 169, lo, 141, 4, 220, 169, hi, 141, 5, 220, 96>>)

FrameObs0 == [kind |-> "new", before |-> 0, wrote |-> FALSE]

FrameInit ==
  /\ eng = NewEngine
  /\ twin = NoEngine
  /\ ref = NoEngine
  /\ pl = NoPlayer
  /\ obs = FrameObs0
  /\ depth = 0

\* loadSIDData(filedata, 0), which ends with init(0)
FrameLoad(bits, lo, hi) ==
  /\ ~eng.loaded
  /\ eng' = loadSIDData(eng, LatchFile(bits, lo, hi), 0)
  /\ obs' = [FrameObs0 EXCEPT !.kind = "load"]
  /\ UNCHANGED <<twin, ref, pl, depth>>

\* play(): one sample.  wrote: the timer latch registers no longer hold
\* what init left in them
FramePlay(rnd) ==
  /\ eng.loaded
  /\ eng.playtime < MaxFrameRun
  /\ \E r \in {play(eng, rnd)} :
       /\ eng' = r.e
       /\ obs' = [kind |-> "play", before |-> eng.frame_sampleperiod,
                  wrote |-> obs.wrote \/ Rd(r.e.memory, 56324) # Rd(eng.memory, 56324)
                                      \/ Rd(r.e.memory, 56325) # Rd(eng.memory, 56325)]
  /\ UNCHANGED <<twin, ref, pl, depth>>

FrameNext ==
  \/ \E bits \in {0, 1}, lo \in LatchLows, hi \in LatchHighs : FrameLoad(bits, lo, hi)
  \/ \E rnd \in RandomDraws : FramePlay(rnd)

SpecFrame == FrameInit /\ [][FrameNext]_vars

\* C31: after init and after every play() call, also one in which the play
\* routine of a timer-driven subtune stored to 0xDC04 / 0xDC05, the frame
\* period is greater than zero.
C31_PositiveFramePeriod ==
  obs.kind \in {"load", "play"} /\ eng.initialized => eng.frame_sampleperiod > 0

-----------------------------------------------------------------------------
(* The component destroyed while its load is pending (SpecComp).           *)

\* C32: when the fetch of a load completes successfully after willDestroy
\* (which destroys the player), no error is raised, the player stays as
\* destroy left it (not loaded, not playing) and the component's state is
\* not changed.
C32_DestroyDuringLoad ==
  [][(obs.gone /\ obs.pending /\ ~obs'.pending /\ obs'.kind # "failed") =>
        /\ obs'.kind # "typeerror"
        /\ pl' = pl
        /\ obs'.state = obs.state]_vars

-----------------------------------------------------------------------------
(* The component's state, its player and its timer (SpecComp).             *)

\* The operations after which the component is still rendered: the button
\* handlers, the interval's callback, the end of a load, audio callbacks
Rendered == obs.kind # "destroy" /\ (obs.gone => obs.kind \in {"failed", "typeerror"})

\* C33: after every button handler, every tick and every end of a load, the
\* component's state is "playing" exactly if the player is playing, and
\* exactly if the component's interval timer is set.
C33_StateAgrees ==
  Rendered =>
    /\ obs.state = "playing" <=> pl.playing
    /\ obs.state = "playing" <=> obs.timer

\* Play has been pressed after the time limit ended the playback, and the
\* tick that follows has ended it again
C33_PausedByTick ==
  /\ obs.kind = "tick" /\ obs.state = "ended" /\ obs.again
  /\ ~pl.playing /\ ~obs.timer

-----------------------------------------------------------------------------
(* The read-back registers after a sample (SpecPitch).                     *)

\* The chips _SID is called for: the first, and the second and third when
\* the file gives them an address
Configured(e) == {num \in 0..2 : num = 0 \/ e.SID_address[num + 1] # 0}

\* The index of the third voice of chip num in the per-voice arrays
ThirdVoice(num) == num * SID_CHANNEL_AMOUNT + 2

\* C34: after every sample, for every configured chip, the register at
\* offset 0x1C holds the envelope counter of the chip's own third voice
\* and the register at offset 0x1B the high byte of that voice's waveform
\* output.
C34_EnvelopeReadBack ==
  (obs.kind = "play" /\ eng.loaded /\ eng.initialized) =>
    \A num \in Configured(eng) :
      /\ Rd(eng.memory, ChipAddr(eng, num) + 28) = eng.envcnt[ThirdVoice(num)]
      /\ Rd(eng.memory, ChipAddr(eng, num) + 27) = Hi(eng.prevwfout[ThirdVoice(num)])

-----------------------------------------------------------------------------
(* The way back to a full playback (SpecComp).                             *)

\* A press of one of the buttons rendered whatever the number of subtunes:
\* Play, Pause, Stop, Restart
Control == CompPlay \/ CompPause \/ CompStop \/ CompRestart

\* The component plays from the start: state "playing", the player
\* playing, the timer set, the engine's playtime and the displayed one 0
FromStart ==
  /\ obs.state = "playing" /\ pl.playing /\ obs.timer
  /\ obs.time = 0 /\ obs.playtime = 0

\* FromStart holds, or one press, or two presses, lead to it
Recover1 == FromStart \/ ENABLED (Control /\ FromStart')

Recover2 == Recover1 \/ ENABLED (Control /\ Recover1')

\* A track has been loaded and the component shows its controls
AfterLoad ==
  pl.loaded /\ ~obs.gone /\ obs.state \in {"ready", "playing", "paused", "ended"}

\* C35: in every state of the component after a successful load, "ended"
\* included, at most two presses of the buttons rendered (without the
\* subtune selector) lead to state "playing" with the playtime at 0; and
\* while the limit has not been reached, the audio goes on and no tick
\* leaves state "playing".
C35_NoDeadEnd ==
  /\ AfterLoad => Recover2
  /\ (AfterLoad /\ obs.state = "playing" /\ ~LimitReached) =>
       /\ ENABLED CompAudio
       /\ ~ENABLED (Tick /\ obs'.state # "playing")

\* The limit has ended the playback: Play is the only button rendered
C35_EndedOnlyPlay ==
  /\ AfterLoad /\ obs.state = "ended" /\ LimitReached
  /\ ENABLED CompPlay
  /\ ~ENABLED CompPause /\ ~ENABLED CompStop /\ ~ENABLED CompRestart
  /\ ~Recover1

=============================================================================
